---- MODULE Spec2Model ----
(***************************************************************************)
(* A model of the invoicer client repository (invoicer.client_manager,     *)
(* invoicer.models): the on-disk store of client and project records, the  *)
(* in-memory index derived from it, identifier generation and the CRUD     *)
(* operations of ClientManager.                                            *)
(*                                                                         *)
(* Conventions.  A Python str is a sequence of one-character strings, so   *)
(* that slugging, stripping, case folding and splitting are computed as    *)
(* the code computes them.  A datetime is a clock tick (a positive         *)
(* integer); Python None in an Optional[datetime] is NoneDate.  The        *)
(* ISO-8601 text of a datetime, as it appears in a JSON file or in the     *)
(* index, is the one-element tuple of its tick, and JSON null is the empty *)
(* tuple.  A dict is a function whose domain is its set of keys.           *)
(***************************************************************************)
EXTENDS Integers, Sequences, FiniteSets, TLC

VARIABLES
    disk,     \* the clients directory: directory name -> [client, projects]
    index,    \* ClientManager.index["clients"]: client id -> summary dict
    now,      \* the wall clock, in ticks
    last,     \* the most recent call: operation, arguments and outcome
    issued    \* history: the ids add_client has returned, in order; in the
              \* runs on rendered invoices, the files of the invoices directory

vars == <<disk, index, now, last, issued>>

-----------------------------------------------------------------------------
(* Bounds of the model *)

\* Every call takes one tick; runs are explored up to this clock value.
MaxTime == 4

-----------------------------------------------------------------------------
(* Program constants *)

HOURLY_RATE == 75
HOURS_PER_DAY == 8
MinNameLen == 1
MinCodeLen == 1
MaxCodeLen == 10

-----------------------------------------------------------------------------
(* Characters and strings *)

LowerChars == << "a", "b", "c", "d", "e", "f", "g", "h", "i", "j", "k", "l", "m",
                 "n", "o", "p", "q", "r", "s", "t", "u", "v", "w", "x", "y", "z" >>
UpperChars == << "A", "B", "C", "D", "E", "F", "G", "H", "I", "J", "K", "L", "M",
                 "N", "O", "P", "Q", "R", "S", "T", "U", "V", "W", "X", "Y", "Z" >>
DigitChars == << "0", "1", "2", "3", "4", "5", "6", "7", "8", "9" >>

Range(s) == { s[i] : i \in 1..Len(s) }

LowerSet == Range(LowerChars)
UpperSet == Range(UpperChars)
DigitSet == Range(DigitChars)
AlnumSet == LowerSet \cup UpperSet \cup DigitSet

IndexOf(c, s) == IF c \in Range(s) THEN CHOOSE i \in 1..Len(s) : s[i] = c ELSE 0

\* str.lower() and str.upper(), one character at a time
LowerChar(c) == IF c \in UpperSet THEN LowerChars[IndexOf(c, UpperChars)] ELSE c
UpperChar(c) == IF c \in LowerSet THEN UpperChars[IndexOf(c, LowerChars)] ELSE c
Lower(s) == [i \in 1..Len(s) |-> LowerChar(s[i])]
Upper(s) == [i \in 1..Len(s) |-> UpperChar(s[i])]

\* the character class [a-zA-Z0-9]
IsAlnum(c) == c \in AlnumSet

Whitespace == { " ", "\t", "\n" }

RECURSIVE LStrip(_, _)
LStrip(s, chars) ==
    IF s # << >> /\ Head(s) \in chars THEN LStrip(Tail(s), chars) ELSE s

RECURSIVE RStrip(_, _)
RStrip(s, chars) ==
    IF s # << >> /\ s[Len(s)] \in chars THEN RStrip(SubSeq(s, 1, Len(s) - 1), chars) ELSE s

\* str.strip(chars)
StripChars(s, chars) == RStrip(LStrip(s, chars), chars)

\* str.strip()
Strip(s) == StripChars(s, Whitespace)

\* str(n) for a non-negative integer
RECURSIVE Digits(_)
Digits(n) ==
    IF n < 10 THEN << DigitChars[n + 1] >>
    ELSE Digits(n \div 10) \o << DigitChars[(n % 10) + 1] >>

\* re.sub(r"[^a-zA-Z0-9]", "_", s)
ReplaceNonAlnum(s) == [i \in 1..Len(s) |-> IF IsAlnum(s[i]) THEN s[i] ELSE "_"]

\* re.sub(r"_+", "_", s)
RECURSIVE CollapseUnderscores(_)
CollapseUnderscores(s) ==
    IF Len(s) <= 1 THEN s
    ELSE IF s[1] = "_" /\ s[2] = "_" THEN CollapseUnderscores(Tail(s))
    ELSE << s[1] >> \o CollapseUnderscores(Tail(s))

\* the slugging rule shared by client and project ids
Slug(name) == StripChars(CollapseUnderscores(ReplaceNonAlnum(Lower(name))), { "_" })

\* dict.get(key, default)
Get(d, k, default) == IF k \in DOMAIN d THEN d[k] ELSE default

-----------------------------------------------------------------------------
(* Dates *)

NoneDate == 0

\* field_serializer serialize_datetime: v.isoformat() if v else None
serialize_datetime(v) == IF v = NoneDate THEN << >> ELSE << v >>

\* In a file written by hand the value of a date key can also be a string that
\* is no ISO date, or a JSON value that is no string (an array)
NotIsoText == << 0 >>
NotAString == << 0 - 1 >>

\* v is the ISO text of a datetime
IsIsoText(v) == v # << >> /\ v[1] >= 1

\* pydantic's parsing of an ISO string (or null) into Optional[datetime];
\* datetime.fromisoformat in list_clients
fromisoformat(s) == IF s = << >> THEN NoneDate ELSE s[1]

-----------------------------------------------------------------------------
(* pydantic models (invoicer.models) *)

\* str.find(c), 1-based; 0 when c does not occur
Find(s, c) ==
    IF c \in Range(s)
    THEN CHOOSE i \in 1..Len(s) : s[i] = c /\ \A j \in 1..(i - 1) : s[j] # c
    ELSE 0

Count(s, c) == Cardinality({ i \in 1..Len(s) : s[i] = c })

LocalPart(e) == SubSeq(e, 1, Find(e, "@") - 1)
DomainPart(e) == SubSeq(e, Find(e, "@") + 1, Len(e))

LocalChars == AlnumSet \cup { ".", "_", "-", "+" }
DomainChars == AlnumSet \cup { ".", "-" }

\* EmailStr accepts: surrounding whitespace is dropped, then local@domain with a
\* dotted domain whose labels are not empty
EmailValid(raw) ==
    LET e == Strip(raw)
        d == DomainPart(e)
    IN  /\ Count(e, "@") = 1
        /\ LocalPart(e) # << >>
        /\ Range(LocalPart(e)) \subseteq LocalChars
        /\ Range(d) \subseteq DomainChars
        /\ Count(d, ".") >= 1
        /\ \A i \in 1..Len(d) :
               d[i] = "." => /\ i \notin { 1, Len(d) }
                             /\ d[i + 1] # "."

\* EmailStr returns the normalised address: the domain in lower case
EmailNormalized(raw) ==
    LET e == Strip(raw) IN LocalPart(e) \o << "@" >> \o Lower(DomainPart(e))

RequiredFields == { "id", "name", "email", "client_code" }

\* created_date parses as a datetime (absent, it defaults to now) and
\* last_invoice_date is null, absent or parses as a datetime
DatesValid(d) ==
    /\ IsIsoText(Get(d, "created_date", << now >>))
    /\ \/ Get(d, "last_invoice_date", << >>) = << >>
       \/ IsIsoText(Get(d, "last_invoice_date", << >>))

\* ClientModelValid without the EmailStr check
ClientModelValidNoEmailCheck(d) ==
    /\ RequiredFields \subseteq DOMAIN d
    /\ Len(d.name) >= MinNameLen
    /\ Strip(d.name) # << >>
    /\ Len(d.client_code) \in MinCodeLen..MaxCodeLen
    /\ Get(d, "total_invoices", 0) >= 0
    /\ Get(d, "total_amount", 0) >= 0
    /\ DatesValid(d)

\* ClientModelValid without the length limits of client_code
ClientModelValidNoCodeLength(d) ==
    /\ RequiredFields \subseteq DOMAIN d
    /\ Len(d.name) >= MinNameLen
    /\ Strip(d.name) # << >>
    /\ EmailValid(d.email)
    /\ Get(d, "total_invoices", 0) >= 0
    /\ Get(d, "total_amount", 0) >= 0
    /\ DatesValid(d)

\* ClientModel(**d) raises no ValidationError.  Dates in d are in ISO text form
\* (pydantic parses them); a caller holding a datetime passes its ISO form.
ClientModelValid(d) ==
    /\ RequiredFields \subseteq DOMAIN d
    /\ Len(d.name) >= MinNameLen
    /\ Strip(d.name) # << >>                              \* validate_name
    /\ EmailValid(d.email)
    /\ Len(d.client_code) \in MinCodeLen..MaxCodeLen
    /\ Get(d, "total_invoices", 0) >= 0
    /\ Get(d, "total_amount", 0) >= 0
    /\ DatesValid(d)

\* The model ClientModel(**d) builds: keys that are no field of the model are
\* ignored, validators normalise name, email and client_code.
ClientModel(d) ==
    [ id                |-> d.id,
      name              |-> Strip(d.name),
      email             |-> EmailNormalized(d.email),
      client_code       |-> Upper(d.client_code),
      address           |-> Get(d, "address", << >>),
      phone             |-> Get(d, "phone", << >>),
      notes             |-> Get(d, "notes", << >>),
      created_date      |-> fromisoformat(Get(d, "created_date", << now >>)),
      last_invoice_date |-> fromisoformat(Get(d, "last_invoice_date", << >>)),
      total_invoices    |-> Get(d, "total_invoices", 0),
      total_amount      |-> Get(d, "total_amount", 0) ]

\* model_dump(), model_dump(mode="json") and model_dump_json(): the field
\* serializer runs in every mode, so all three carry dates as ISO text
model_dump(m) ==
    [ m EXCEPT !.created_date = serialize_datetime(@),
               !.last_invoice_date = serialize_datetime(@) ]

\* ClientSummaryModel(**d) raises no ValidationError
ClientSummaryModelValid(d) == EmailValid(d.email)

\* ProjectModel(id, name, client_id, created_date), serialised
ProjectModel(id, name, client_id, created) ==
    [ id |-> id, name |-> name, client_id |-> client_id,
      created_date |-> serialize_datetime(created) ]

-----------------------------------------------------------------------------
(* The store: paths and files *)

\* the clients directory itself: Path(clients_dir) / "" is clients_dir
Root == << >>

NoFile == << >>
NoFiles == << >>

EmptyDir == [ client |-> NoFile, projects |-> NoFiles ]

\* A client.json is held as the dict json.loads returns for it; a file whose
\* text is no JSON is held as its raw text
NotJson == [ raw |-> << "{" >> ]

\* json.loads(client_file.read_text()) raises JSONDecodeError
Unparsable(file) == "raw" \in DOMAIN file

\* _get_client_dir(client_id).exists()
DirExists(d, client_id) == client_id \in DOMAIN d

\* _get_client_file(client_id).exists()
ClientFileExists(d, client_id) ==
    DirExists(d, client_id) /\ d[client_id].client # NoFile

\* _get_project_file(client_id, project_name).exists()
ProjectFileExists(d, client_id, project_name) ==
    DirExists(d, client_id) /\ project_name \in DOMAIN d[client_id].projects

\* the subdirectories clients_dir.iterdir() yields that are kept by
\* "is_dir() and not name.startswith('.')"
ClientDirs(d) == { c \in DOMAIN d : c # Root /\ c[1] # "." }

\* shutil.rmtree(_get_client_dir(client_id))
rmtree(d, client_id) ==
    IF client_id = Root THEN << >>
    ELSE [ c \in DOMAIN d \ { client_id } |-> d[c] ]

\* client_dir.mkdir(exist_ok=True) then client_file.write_text(text)
WriteClientFile(d, client_id, text) ==
    LET dir == IF DirExists(d, client_id) THEN d[client_id] ELSE EmptyDir
    IN  [ c \in DOMAIN d \cup { client_id } |->
            IF c = client_id THEN [ dir EXCEPT !.client = << text >> ] ELSE d[c] ]

\* project_file.write_text(text) in an existing client directory
WriteProjectFile(d, client_id, project_name, text) ==
    LET files == d[client_id].projects
        written == [ p \in DOMAIN files \cup { project_name } |->
                       IF p = project_name THEN text ELSE files[p] ]
    IN  [ d EXCEPT ![client_id].projects = written ]

\* project_file.unlink()
UnlinkProjectFile(d, client_id, project_name) ==
    LET files == d[client_id].projects
    IN  [ d EXCEPT ![client_id].projects =
            [ p \in DOMAIN files \ { project_name } |-> files[p] ] ]

-----------------------------------------------------------------------------
(* ClientManager: reads *)

None == << >>

\* get_client's backward compatibility step: a legacy "company" key stands in
\* for a missing or empty "name", and is then dropped
WithoutCompany(data) ==
    IF "company" \notin DOMAIN data THEN data
    ELSE LET named == IF Get(data, "name", << >>) = << >> THEN data.company
                      ELSE data.name
         IN  [ k \in (DOMAIN data \cup { "name" }) \ { "company" } |->
                 IF k = "name" THEN named ELSE data[k] ]

\* get_client(client_id): None, or the one-element tuple of the model
get_client(d, client_id) ==
    IF ~ClientFileExists(d, client_id) THEN None
    ELSE IF Unparsable(d[client_id].client[1]) THEN None
    ELSE LET data == WithoutCompany(d[client_id].client[1])
         IN  IF ClientModelValid(data) THEN << ClientModel(data) >> ELSE None

UnknownClient == << "U", "n", "k", "n", "o", "w", "n", " ", "C", "l", "i", "e", "n", "t" >>

\* one entry of the index, from the parsed client.json
IndexEntry(data) ==
    [ name              |-> IF Get(data, "name", << >>) # << >> THEN data.name
                            ELSE Get(data, "company", UnknownClient),
      email             |-> Get(data, "email", << >>),
      client_code       |-> Get(data, "client_code", << >>),
      vat_number        |-> Get(data, "vat_number", << >>),
      created_date      |-> Get(data, "created_date", << now >>),
      last_invoice_date |-> Get(data, "last_invoice_date", << >>),
      total_invoices    |-> Get(data, "total_invoices", 0) ]

\* _build_index_from_files(): the "clients" dict of the index it returns
\* ("last_updated" and "version" are never read and are left out)
build_index_from_files(d) ==
    [ c \in { c \in ClientDirs(d) : d[c].client # NoFile /\ ~Unparsable(d[c].client[1]) } |->
        IndexEntry(d[c].client[1]) ]

\* the characters of the model in code point order
CodePoints == << "\t", "\n", " ", "!", "+", "-", "." >> \o DigitChars \o << "@" >>
                  \o UpperChars \o << "_" >> \o LowerChars

\* a <= b for Python strings
RECURSIVE StrLeq(_, _)
StrLeq(a, b) ==
    IF a = << >> THEN TRUE
    ELSE IF b = << >> THEN FALSE
    ELSE IF Head(a) = Head(b) THEN StrLeq(Tail(a), Tail(b))
    ELSE IndexOf(Head(a), CodePoints) < IndexOf(Head(b), CodePoints)

\* the ClientSummaryModel list_clients builds from one index entry
ClientSummaryModel(client_id, e) ==
    [ id                |-> client_id,
      name              |-> IF Get(e, "name", << >>) # << >> THEN e.name
                            ELSE Get(e, "company", UnknownClient),
      email             |-> EmailNormalized(e.email),
      client_code       |-> e.client_code,
      created_date      |-> fromisoformat(e.created_date),
      last_invoice_date |-> fromisoformat(e.last_invoice_date),
      total_invoices    |-> e.total_invoices ]

\* datetime.fromisoformat(v) raises TypeError: v is no str
FromIsoTypeError(v) == v = << >> \/ v = NotAString

\* list_clients raises: the TypeError of fromisoformat on a created_date, or on
\* a last_invoice_date that is not empty, is none of the exceptions it catches
list_clients_raises(idx) ==
    \E c \in DOMAIN idx :
        \/ FromIsoTypeError(idx[c].created_date)
        \/ idx[c].last_invoice_date = NotAString

\* the entry is skipped by list_clients: fromisoformat raises ValueError or
\* ClientSummaryModel raises ValidationError
SkippedEntry(e) ==
    \/ ~IsIsoText(e.created_date)
    \/ ~(e.last_invoice_date = << >> \/ IsIsoText(e.last_invoice_date))
    \/ ~ClientSummaryModelValid(e)

\* the summaries list_clients returns, entries that fail validation skipped
Summaries(idx) ==
    { ClientSummaryModel(c, idx[c]) : c \in { c \in DOMAIN idx : ~SkippedEntry(idx[c]) } }

\* list_clients(): the summaries sorted by name.lower() (clients of equal key
\* come in the index's iteration order, which the file system decides: one
\* such order is taken)
RECURSIVE SortedByName(_)
SortedByName(S) ==
    IF S = { } THEN << >>
    ELSE LET first == CHOOSE x \in S :
                          \A y \in S : StrLeq(Lower(x.name), Lower(y.name))
         IN  << first >> \o SortedByName(S \ { first })

list_clients(idx) == SortedByName(Summaries(idx))

\* sub in s, for Python strings
Contains(s, sub) ==
    \E i \in 0..(Len(s) - Len(sub)) : SubSeq(s, i + 1, i + Len(sub)) = sub

\* search_clients with the query compared as given, not lower-cased
search_clients_query_as_given(idx, query) ==
    IF query = << >> THEN list_clients(idx)
    ELSE SelectSeq(list_clients(idx),
                   LAMBDA client : \/ Contains(Lower(client.name), query)
                                   \/ Contains(Lower(client.email), query))

\* search_clients(query)
search_clients(idx, query) ==
    IF query = << >> THEN list_clients(idx)
    ELSE SelectSeq(list_clients(idx),
                   LAMBDA client : \/ Contains(Lower(client.name), Lower(query))
                                   \/ Contains(Lower(client.email), Lower(query)))

\* the project records list_projects(client_id) reads
Projects(d, client_id) ==
    IF ~DirExists(d, client_id) THEN { }
    ELSE { d[client_id].projects[p] : p \in DOMAIN d[client_id].projects }

\* list_projects(client_id): newest first
list_projects(d, client_id) ==
    LET S == Projects(d, client_id)
        n == Cardinality(S)
    IN  CHOOSE s \in [1..n -> S] :
            /\ \A i, j \in 1..n : i # j => s[i] # s[j]
            /\ \A i \in 1..(n - 1) :
                   fromisoformat(s[i].created_date) >= fromisoformat(s[i + 1].created_date)

\* project_id.split('_', 1)
SplitClient(project_id) == SubSeq(project_id, 1, Find(project_id, "_") - 1)
SplitName(project_id) == SubSeq(project_id, Find(project_id, "_") + 1, Len(project_id))

\* _find_project_by_id(project_id): the projects the scan can return (the first
\* match in directory order; the empty set when it returns None)
find_project_by_id(d, project_id) ==
    { pr \in UNION { Projects(d, c) : c \in ClientDirs(d) } : pr.id = project_id }

\* get_project(project_id): the projects it can return; empty when None
get_project(d, project_id) ==
    IF Find(project_id, "_") = 0 THEN { }
    ELSE IF ProjectFileExists(d, SplitClient(project_id), SplitName(project_id))
         THEN { d[SplitClient(project_id)].projects[SplitName(project_id)] }
         ELSE find_project_by_id(d, project_id)

-----------------------------------------------------------------------------
(* ClientManager: identifier generation *)

\* the loop "while id in taken: id = f'{original}_{counter}'; counter += 1"
RECURSIVE SuffixLoop(_, _, _, _)
SuffixLoop(original, candidate, counter, taken) ==
    IF candidate \in taken
    THEN SuffixLoop(original, original \o << "_" >> \o Digits(counter), counter + 1, taken)
    ELSE candidate

\* _generate_client_id without the collision loop
generate_client_id_no_loop(idx, client_name) == Slug(client_name)

\* _generate_client_id(client_name)
generate_client_id(idx, client_name) ==
    SuffixLoop(Slug(client_name), Slug(client_name), 1, DOMAIN idx)

\* _generate_project_id(client_id, project_name)
generate_project_id(d, client_id, project_name) ==
    LET base_id == client_id \o << "_" >> \o Slug(project_name)
    IN  IF get_client(d, client_id) # None
        THEN SuffixLoop(base_id, base_id, 1, { pr.id : pr \in Projects(d, client_id) })
        ELSE base_id

-----------------------------------------------------------------------------
(* The calls of the model and their arguments *)

NoData == << >>

Call(op, id, data, days, ok, rid, raised) ==
    [ op     |-> op,       \* the operation called
      id     |-> id,       \* its client id or project id argument
      data   |-> data,     \* its dict argument (client_data, updates), or its name argument
      days   |-> days,     \* invoice_data["days_worked"]
      ok     |-> ok,       \* it returned True, or returned an id, or recorded
      rid    |-> rid,      \* the id it returned
      raised |-> raised ]  \* it raised instead of returning

EmailOk == << "u", "@", "x", ".", "y" >>
EmailUpperDomain == << "u", "@", "X", ".", "y" >>
EmailOther == << "w", "@", "z", ".", "y" >>
EmailBad == << "u", "x" >>
CodeTooLong == << "a", "b", "c", "d", "e", "f", "g", "h", "i", "j", "k" >>

\* client_data dicts given to add_client
ClientData ==
    { [ name |-> << "a" >>, email |-> EmailOk ],
      [ name |-> << "A" >>, email |-> EmailOk, client_code |-> << "a", "b" >>,
        address |-> << "s" >>, phone |-> << "7" >>, vat_number |-> << "v" >>,
        notes |-> << "n" >> ],
      [ name |-> << "a", " ", "1" >>, email |-> EmailOk ],
      [ name |-> << "!" >>, email |-> EmailOk ],
      [ name |-> << " ", "b" >>, email |-> EmailUpperDomain ],
      [ name |-> << " " >>, email |-> EmailOk ],
      [ name |-> << >>, email |-> EmailOk ],
      [ name |-> << "c" >>, email |-> EmailBad ],
      [ name |-> << "c" >>, email |-> EmailOk, client_code |-> CodeTooLong ] }

\* updates dicts given to update_client
Updates ==
    { [ name |-> << "c" >> ],
      [ name |-> << >> ],
      [ email |-> EmailOther ],
      [ email |-> EmailBad ],
      [ client_code |-> << "c", "d" >> ],
      [ client_code |-> CodeTooLong ],
      [ vat_number |-> << "w" >> ],
      [ notes |-> << "m" >> ],
      [ id |-> << "z" >>, created_date |-> << MaxTime + 1 >>, address |-> << "q" >> ],
      [ total_invoices |-> 2 ],
      [ total_invoices |-> 0 ],
      [ total_invoices |-> 0 - 1 ],
      [ total_amount |-> 0 ] }

\* days_worked values given to record_invoice
Days == { 0 - 1, 0, 2 }

\* project names given to add_project
ProjectNames == { << "p" >>, << "p", " ", "1" >>, << " ", "b" >> }

\* queries given to search_clients
Queries == { << >>, << "A" >>, << "a" >>, << "1" >>, << "u", "@", "X" >>, << "z", "." >> }

\* an id no client or project ever has
Nowhere == << "z", "z" >>

\* client ids given to the calls: every directory, every index key, the empty
\* id and an id that names nothing
ClientIds == DOMAIN disk \cup DOMAIN index \cup { Root, Nowhere }

\* project ids given to the calls: every stored project's id, and ids of none
ProjectIds ==
    UNION { { pr.id : pr \in Projects(disk, c) } : c \in DOMAIN disk }
        \cup { Nowhere, << "z", "_", "z" >> }

-----------------------------------------------------------------------------
(* ClientManager: the operations *)

Min(x, y) == IF x <= y THEN x ELSE y

\* the keyword arguments add_client gives to ClientModel
NewClientFields(client_id, client_data) ==
    [ id           |-> client_id,
      name         |-> client_data.name,
      email        |-> client_data.email,
      address      |-> Get(client_data, "address", << >>),
      phone        |-> Get(client_data, "phone", << >>),
      client_code  |-> Get(client_data, "client_code",
                           Upper(SubSeq(client_data.name, 1, Min(3, Len(client_data.name))))),
      vat_number   |-> Get(client_data, "vat_number", << >>),
      notes        |-> Get(client_data, "notes", << >>),
      created_date |-> serialize_datetime(now) ]

\* add_client(client_data).  ClientModel raises ValidationError before anything
\* is written; mkdir raises FileNotFoundError when the clients directory is
\* gone and the client directory is not that directory itself.
AddClient(client_data) ==
    LET client_id == generate_client_id(index, client_data.name)
        fields == NewClientFields(client_id, client_data)
        raises == \/ ~ClientModelValid(fields)
                  \/ (client_id # Root /\ ~DirExists(disk, Root))
        written == WriteClientFile(disk, client_id, model_dump(ClientModel(fields)))
    IN  /\ now < MaxTime
        /\ now' = now + 1
        /\ IF raises
           THEN /\ UNCHANGED << disk, index, issued >>
                /\ last' = Call("add_client", << >>, client_data, 0, FALSE, << >>, TRUE)
           ELSE /\ issued' = Append(issued, client_id)
                /\ disk' = written
                /\ index' = build_index_from_files(written)
                /\ last' = Call("add_client", << >>, client_data, 0, TRUE, client_id, FALSE)

ImmutableFields == { "id", "created_date" }
IndexedFields == { "name", "email", "client_code", "vat_number" }

\* Merged without the protection of the immutable fields
MergedUnprotected(current_data, updates) ==
    [ k \in DOMAIN current_data \cup DOMAIN updates |->
        IF k \in DOMAIN updates THEN updates[k] ELSE current_data[k] ]

\* current_data after the loop over updates.items() in update_client
Merged(current_data, updates) ==
    LET applied == DOMAIN updates \ ImmutableFields
    IN  [ k \in DOMAIN current_data \cup applied |->
            IF k \in applied THEN updates[k] ELSE current_data[k] ]

\* the index after update_client wrote the file
IndexAfterUpdate(idx, written, updates) ==
    IF DOMAIN updates \cap IndexedFields # { }
    THEN build_index_from_files(written)
    ELSE idx

\* update_client(client_id, updates)
UpdateClient(client_id, updates) ==
    LET found == get_client(disk, client_id)
        merged == Merged(model_dump(found[1]), updates)
        written == WriteClientFile(disk, client_id, model_dump(ClientModel(merged)))
    IN  /\ now < MaxTime
        /\ now' = now + 1
        /\ UNCHANGED issued
        /\ IF found = None \/ ~ClientModelValid(merged)
           THEN /\ UNCHANGED << disk, index >>
                /\ last' = Call("update_client", client_id, updates, 0, FALSE, << >>, FALSE)
           ELSE /\ disk' = written
                /\ index' = IndexAfterUpdate(index, written, updates)
                /\ last' = Call("update_client", client_id, updates, 0, TRUE, << >>, FALSE)

\* Recorded with total_amount set to the invoice amount instead of increased by it
RecordedNotAccumulated(client_model, days_worked) ==
    [ model_dump(client_model) EXCEPT
        !.total_invoices = client_model.total_invoices + 1,
        !.last_invoice_date = serialize_datetime(now),
        !.total_amount = days_worked * HOURS_PER_DAY * HOURLY_RATE ]

\* Recorded with last_invoice_date left as it was
RecordedWithoutDate(client_model, days_worked) ==
    [ model_dump(client_model) EXCEPT
        !.total_invoices = client_model.total_invoices + 1,
        !.total_amount = client_model.total_amount
                             + days_worked * HOURS_PER_DAY * HOURLY_RATE ]

\* updated_data in record_invoice
Recorded(client_model, days_worked) ==
    [ model_dump(client_model) EXCEPT
        !.total_invoices = client_model.total_invoices + 1,
        !.last_invoice_date = serialize_datetime(now),
        !.total_amount = client_model.total_amount
                             + days_worked * HOURS_PER_DAY * HOURLY_RATE ]

\* record_invoice(client_id, {"days_worked": days_worked}).  ClientModel is
\* built outside any try: a ValidationError propagates to the caller.
RecordInvoice(client_id, days_worked) ==
    LET found == get_client(disk, client_id)
        updated == Recorded(found[1], days_worked)
        written == WriteClientFile(disk, client_id, model_dump(ClientModel(updated)))
    IN  /\ now < MaxTime
        /\ now' = now + 1
        /\ UNCHANGED issued
        /\ IF found = None
           THEN /\ UNCHANGED << disk, index >>
                /\ last' = Call("record_invoice", client_id, NoData, days_worked,
                                FALSE, << >>, FALSE)
           ELSE IF ~ClientModelValid(updated)
           THEN /\ UNCHANGED << disk, index >>
                /\ last' = Call("record_invoice", client_id, NoData, days_worked,
                                FALSE, << >>, TRUE)
           ELSE /\ disk' = written
                /\ index' = build_index_from_files(written)
                /\ last' = Call("record_invoice", client_id, NoData, days_worked,
                                TRUE, << >>, FALSE)

\* delete_client(client_id).  With the empty id the directory removed is the
\* clients directory itself, and the index rebuild that follows raises
\* FileNotFoundError from iterdir(), leaving self.index as it was.
DeleteClient(client_id) ==
    /\ now < MaxTime
    /\ now' = now + 1
    /\ UNCHANGED issued
    /\ IF ~DirExists(disk, client_id)
       THEN /\ UNCHANGED << disk, index >>
            /\ last' = Call("delete_client", client_id, NoData, 0, FALSE, << >>, FALSE)
       ELSE IF client_id = Root
       THEN /\ disk' = rmtree(disk, client_id)
            /\ UNCHANGED index
            /\ last' = Call("delete_client", client_id, NoData, 0, FALSE, << >>, TRUE)
       ELSE /\ disk' = rmtree(disk, client_id)
            /\ index' = build_index_from_files(rmtree(disk, client_id))
            /\ last' = Call("delete_client", client_id, NoData, 0, TRUE, << >>, FALSE)

\* project_id[len(client_id) + 1:]
LocalName(client_id, project_id) ==
    SubSeq(project_id, Len(client_id) + 2, Len(project_id))

\* add_project(client_id, project_name)
AddProject(client_id, project_name) ==
    LET project_id == generate_project_id(disk, client_id, project_name)
        text == ProjectModel(project_id, Strip(project_name), client_id, now)
    IN  /\ now < MaxTime
        /\ now' = now + 1
        /\ UNCHANGED << index, issued >>
        /\ IF get_client(disk, client_id) = None
           THEN /\ UNCHANGED disk
                /\ last' = Call("add_project", client_id, project_name, 0,
                                FALSE, << >>, FALSE)
           ELSE /\ disk' = WriteProjectFile(disk, client_id,
                                            LocalName(client_id, project_id), text)
                /\ last' = Call("add_project", client_id, project_name, 0,
                                TRUE, project_id, FALSE)

\* the files delete_project(project_id) can unlink once get_project returned
\* project: the file the split id names if it exists, else the first file of
\* the project's client directory that stores this id
DeleteTargets(d, project_id, project) ==
    IF ProjectFileExists(d, SplitClient(project_id), SplitName(project_id))
    THEN { << SplitClient(project_id), SplitName(project_id) >> }
    ELSE IF ~DirExists(d, project.client_id) THEN { }
    ELSE { << project.client_id, p >> :
             p \in { p \in DOMAIN d[project.client_id].projects :
                       d[project.client_id].projects[p].id = project_id } }

\* delete_project(project_id)
DeleteProject(project_id) ==
    /\ now < MaxTime
    /\ now' = now + 1
    /\ UNCHANGED << index, issued >>
    /\ IF get_project(disk, project_id) = { }
       THEN /\ UNCHANGED disk
            /\ last' = Call("delete_project", project_id, NoData, 0, FALSE, << >>, FALSE)
       ELSE \E project \in get_project(disk, project_id) :
              /\ last' = Call("delete_project", project_id, NoData, 0, TRUE, << >>, FALSE)
              /\ IF DeleteTargets(disk, project_id, project) = { }
                 THEN UNCHANGED disk
                 ELSE \E t \in DeleteTargets(disk, project_id, project) :
                        disk' = UnlinkProjectFile(disk, t[1], t[2])

-----------------------------------------------------------------------------
(* The specification *)

\* ClientManager(clients_dir): the clients directory is created, empty, and
\* the index is built from it
Init ==
    /\ disk = [ c \in { Root } |-> EmptyDir ]
    /\ index = build_index_from_files([ c \in { Root } |-> EmptyDir ])
    /\ now = 1
    /\ last = Call("init", << >>, NoData, 0, TRUE, << >>, FALSE)
    /\ issued = << >>

Next ==
    \/ \E client_data \in ClientData : AddClient(client_data)
    \/ \E client_id \in ClientIds, updates \in Updates : UpdateClient(client_id, updates)
    \/ \E client_id \in ClientIds, days_worked \in Days : RecordInvoice(client_id, days_worked)
    \/ \E client_id \in ClientIds : DeleteClient(client_id)
    \/ \E client_id \in ClientIds, project_name \in ProjectNames :
           AddProject(client_id, project_name)
    \/ \E project_id \in ProjectIds : DeleteProject(project_id)

Spec == Init /\ [][Next]_vars

-----------------------------------------------------------------------------
(* The project operations on a store that holds two clients *)

\* the record file add_client writes for client_data under client_id
NewClientFile(client_id, client_data) ==
    model_dump(ClientModel(NewClientFields(client_id, client_data)))

\* the clients directory after add_client({"name": "a", ...}) and
\* add_client({"name": "a 1", ...}), which returned "a" and "a_1"
TwoClients ==
    WriteClientFile(
        WriteClientFile([ c \in { Root } |-> EmptyDir ], << "a" >>,
                        NewClientFile(<< "a" >>, [ name |-> << "a" >>, email |-> EmailOk ])),
        << "a", "_", "1" >>,
        NewClientFile(<< "a", "_", "1" >>,
                      [ name |-> << "a", " ", "1" >>, email |-> EmailOk ]))

\* project names given to add_project on that store
ProjectNamesOfTwo == { << "p" >>, << "1", " ", "p" >>, << " ", "p", "!" >> }

\* ClientManager(clients_dir) over the directory of the two clients
InitProjects ==
    /\ now = 1
    /\ disk = TwoClients
    /\ index = build_index_from_files(TwoClients)
    /\ last = Call("init", << >>, NoData, 0, TRUE, << >>, FALSE)
    /\ issued = << << "a" >>, << "a", "_", "1" >> >>

NextProjects ==
    \/ \E client_id \in ClientIds, project_name \in ProjectNamesOfTwo :
           AddProject(client_id, project_name)
    \/ \E project_id \in ProjectIds : DeleteProject(project_id)

SpecProjects == InitProjects /\ [][NextProjects]_vars

-----------------------------------------------------------------------------
(* The operations on a store that holds a record file written by hand *)

\* the record file of a valid client "b"
GoodFile ==
    [ id |-> << "b" >>, name |-> << "b" >>, email |-> EmailOk, client_code |-> << "B" >>,
      created_date |-> << 1 >>, last_invoice_date |-> << >>,
      total_invoices |-> 0, total_amount |-> 0 ]

\* GoodFile without the keys in gone
Without(file, gone) == [ k \in DOMAIN file \ gone |-> file[k] ]

\* the contents b/client.json can have: valid (also in its legacy form with
\* "company" for "name"), no JSON, keys missing, values of the wrong type or form
FileContents ==
    { GoodFile,
      [ k \in (DOMAIN GoodFile \ { "name" }) \cup { "company" } |->
          IF k = "company" THEN << "b" >> ELSE GoodFile[k] ],
      NotJson,
      Without(GoodFile, { "email" }),
      Without(GoodFile, { "id", "name", "client_code" }),
      Without(GoodFile, { "created_date" }),
      [ GoodFile EXCEPT !.email = EmailBad ],
      [ GoodFile EXCEPT !.created_date = NotIsoText ],
      [ GoodFile EXCEPT !.created_date = NotAString ],
      [ GoodFile EXCEPT !.created_date = << >> ],
      [ GoodFile EXCEPT !.last_invoice_date = NotIsoText ],
      [ GoodFile EXCEPT !.last_invoice_date = NotAString ],
      [ GoodFile EXCEPT !.total_invoices = 0 - 1 ] }

\* the clients directory: client "a" as add_client wrote it, and a directory
\* "b" whose client.json has the given content
StoreWithFile(file) ==
    WriteClientFile(
        WriteClientFile([ c \in { Root } |-> EmptyDir ], << "a" >>,
                        NewClientFile(<< "a" >>, [ name |-> << "a" >>, email |-> EmailOk ])),
        << "b" >>, file)

\* client_data given to add_client on that store
ClientDataOnFiles ==
    { [ name |-> << "b" >>, email |-> EmailOk ],
      [ name |-> << "c" >>, email |-> EmailOther ] }

\* ClientManager(clients_dir) over such a directory
InitFiles ==
    /\ now = 1
    /\ \E file \in FileContents :
           /\ disk = StoreWithFile(file)
           /\ index = build_index_from_files(StoreWithFile(file))
    /\ last = Call("init", << >>, NoData, 0, TRUE, << >>, FALSE)
    /\ issued = << >>

\* a call of get_client(client_id)
GetClient(client_id) ==
    /\ now < MaxTime
    /\ now' = now + 1
    /\ UNCHANGED << disk, index, issued >>
    /\ last' = Call("get_client", client_id, NoData, 0,
                    get_client(disk, client_id) # None, << >>, FALSE)

\* a call of list_clients()
ListClients ==
    /\ now < MaxTime
    /\ now' = now + 1
    /\ UNCHANGED << disk, index, issued >>
    /\ last' = Call("list_clients", << >>, NoData, 0,
                    ~list_clients_raises(index), << >>, list_clients_raises(index))

NextFiles ==
    \/ \E client_data \in ClientDataOnFiles : AddClient(client_data)
    \/ \E client_id \in ClientIds : GetClient(client_id)
    \/ ListClients

SpecFiles == InitFiles /\ [][NextFiles]_vars

-----------------------------------------------------------------------------
(* Invoice models (invoicer.models) *)

\* Amounts, rates and totals are floats in the code; here they are integers
\* counting ten-thousandths of the currency unit, a tax rate is a whole
\* number of percent, a quantity a whole number of units.
Unit == 10000
Cent == 100
Percent == 100

\* the tolerance 0.01 of the validators
Tolerance == 100

Abs(x) == IF x < 0 THEN 0 - x ELSE x

\* round(v, 2) for v >= 0: the nearest cent, a tie going to the even cent
Round2(v) ==
    LET q == v \div Cent
        r == v % Cent
    IN  IF 2 * r < Cent THEN q * Cent
        ELSE IF 2 * r > Cent THEN (q + 1) * Cent
        ELSE IF q % 2 = 0 THEN q * Cent ELSE (q + 1) * Cent

\* InvoiceItemModel(**kw) raises no ValidationError: quantity > 0, rate > 0,
\* amount >= 0, then validate_amount_matches_calculation
InvoiceItemModelValid(kw) ==
    /\ kw.quantity > 0
    /\ kw.rate > 0
    /\ kw.amount >= 0
    /\ ~(Abs(kw.amount - kw.quantity * kw.rate) > Tolerance)

\* the item InvoiceItemModel(**kw) builds: the validator returns round(v, 2)
InvoiceItemModel(kw) ==
    [ quantity |-> kw.quantity, rate |-> kw.rate, amount |-> Round2(kw.amount) ]

\* sum(item.amount for item in line_items)
RECURSIVE SumAmounts(_)
SumAmounts(items) ==
    IF items = << >> THEN 0 ELSE Head(items).amount + SumAmounts(Tail(items))

\* the fields of InvoiceModel that have a default, and the default
InvoiceDefaults == [ line_items |-> << >>, tax_rate |-> 0, tax_amount |-> 0 ]

\* kw with the defaults of the fields it does not supply
WithDefaults(kw) ==
    [ k \in DOMAIN kw \cup DOMAIN InvoiceDefaults |->
        IF k \in DOMAIN kw THEN kw[k] ELSE InvoiceDefaults[k] ]

\* subtotal * tax_rate (the product is exact for the amounts of the model:
\* whole cents, or whole thousandths with a tax rate of whole tens of percent)
TaxOf(subtotal, tax_rate) ==
    (subtotal \div Percent) * tax_rate + ((subtotal % Percent) * tax_rate) \div Percent

\* InvoiceModel(**kw) raises no ValidationError.  The fields are validated in
\* the order line_items, subtotal, tax_rate, tax_amount, total_amount; each
\* validator sees the validated (rounded) values of the fields before it, and
\* no validator runs on a field left to its default.
InvoiceModelValid(kw) ==
    LET v == WithDefaults(kw)
        subtotal == Round2(v.subtotal)
        tax_amount == IF "tax_amount" \in DOMAIN kw THEN Round2(v.tax_amount)
                      ELSE v.tax_amount
    IN  /\ Get(kw, "days_worked", 0) >= 0
        /\ v.subtotal >= 0
        /\ v.line_items # << >>
           => ~(Abs(v.subtotal - SumAmounts(v.line_items)) > Tolerance)
        /\ v.tax_rate \in 0..Percent
        /\ v.tax_amount >= 0
        /\ "tax_amount" \in DOMAIN kw
           => ~(Abs(v.tax_amount - TaxOf(subtotal, v.tax_rate)) > Tolerance)
        /\ v.total_amount >= 0
        /\ ~(Abs(v.total_amount - (subtotal + tax_amount)) > Tolerance)

\* the invoice InvoiceModel(**kw) builds
InvoiceModel(kw) ==
    LET v == WithDefaults(kw)
    IN  [ line_items   |-> v.line_items,
          days_worked  |-> Get(kw, "days_worked", None),
          subtotal     |-> Round2(v.subtotal),
          tax_rate     |-> v.tax_rate,
          tax_amount   |-> IF "tax_amount" \in DOMAIN kw THEN Round2(v.tax_amount)
                           ELSE v.tax_amount,
          total_amount |-> Round2(v.total_amount) ]

-----------------------------------------------------------------------------
(* The invoice functions, each applied once to arguments drawn at the start *)

\* marks a keyword argument that is not supplied
Absent == 0 - 1

\* kw without the keys marked Absent
Supplied(kw) == [ k \in { k \in DOMAIN kw : kw[k] # Absent } |-> kw[k] ]

\* keyword arguments given to InvoiceItemModel
ItemKwargs ==
    { [ quantity |-> q, rate |-> r, amount |-> a ] :
        q \in { 0, 1, 2 },
        r \in { 0, 56, 100 * Unit },
        a \in { 0, 155, 100 * Unit, 100 * Unit + 90, 150 * Unit, 200 * Unit } }

\* two line items, of 100.00 and of 200.00
Item100 == InvoiceItemModel([ quantity |-> 1, rate |-> 100 * Unit, amount |-> 100 * Unit ])
Item200 == InvoiceItemModel([ quantity |-> 2, rate |-> 100 * Unit, amount |-> 200 * Unit ])

\* keyword arguments given to InvoiceModel; line_items is given as a list or
\* left out with the other optional fields
InvoiceKwargs ==
    { [ k \in DOMAIN Supplied(kw) \cup { "line_items" } |->
          IF k = "line_items" THEN li ELSE kw[k] ] :
        li \in { << >>, << Item100 >>, << Item100, Item200 >> },
        kw \in { [ subtotal |-> st, tax_rate |-> tr, tax_amount |-> ta, total_amount |-> tot ] :
                   st \in { 100 * Unit, 300 * Unit, 300 * Unit + 40 },
                   tr \in { Absent, 0, 20, 100, 110 },
                   ta \in { Absent, 0, 20 * Unit, 60 * Unit },
                   tot \in { 100 * Unit, 120 * Unit, 300 * Unit, 360 * Unit,
                             360 * Unit + 60 } } }

\* arguments of dict_to_invoice_model: the invoice dict, and the configuration
\* it reads (hours per day; hourly rate, here 75.00 or 600.014)
DictArguments ==
    { [ invoice_dict  |-> Supplied([ days_worked |-> d, tax_rate |-> t ]),
        hours_per_day |-> c[1],
        hourly_rate   |-> c[2] ] :
        d \in { 0, 1, 2, 20 },
        t \in { Absent, 0, 20, 100 },
        c \in { << HOURS_PER_DAY, HOURLY_RATE * Unit >>, << 1, 600 * Unit + 140 >> } }

\* the names generate_invoice_number gives to str.format
YearName == << "y", "e", "a", "r" >>
MonthName == << "m", "o", "n", "t", "h" >>
DayName == << "d", "a", "y" >>
ClientCodeName == << "c", "l", "i", "e", "n", "t", "_", "c", "o", "d", "e" >>
InvoiceNumberName ==
    << "i", "n", "v", "o", "i", "c", "e", "_", "n", "u", "m", "b", "e", "r" >>

\* the default of settings.invoice_number_template
DefaultTemplate ==
    << "I", "N", "V", "-", "{" >> \o YearName \o << "}", "{" >> \o MonthName
        \o << ":", "0", "2", "d", "}", "-", "{" >> \o ClientCodeName \o << "}" >>

\* "{year}/{month}/{day}/{month:02d}/{day:02d}/{client_code}/{invoice_number}"
EveryVariableTemplate ==
    << "{" >> \o YearName \o << "}", "/", "{" >> \o MonthName \o << "}", "/", "{" >>
        \o DayName \o << "}", "/", "{" >> \o MonthName
        \o << ":", "0", "2", "d", "}", "/", "{" >> \o DayName
        \o << ":", "0", "2", "d", "}", "/", "{" >> \o ClientCodeName
        \o << "}", "/", "{" >> \o InvoiceNumberName \o << "}" >>

\* templates that name something generate_invoice_number does not supply
UnknownNameTemplate == << "N", "-", "{", "f", "o", "o", "}" >>
UnknownPaddedTemplate ==
    << "{" >> \o YearName \o << "}", "{", "s", "e", "q", ":", "0", "3", "d", "}" >>
PositionalTemplate == << "I", "N", "V", "-", "{", "0", "}" >>

\* templates str.format rejects or copies: "{client_code:02d}", "{{x}}-{day:3}"
StringAsNumberTemplate ==
    << "{" >> \o ClientCodeName \o << ":", "0", "2", "d", "}" >>
EscapedTemplate ==
    << "{", "{", "x", "}", "}", "-", "{" >> \o DayName \o << ":", "3", "}" >>

Templates ==
    { DefaultTemplate, EveryVariableTemplate, UnknownNameTemplate,
      UnknownPaddedTemplate, PositionalTemplate, StringAsNumberTemplate,
      EscapedTemplate }

ClientCodes == { << "A", "C", "M" >>, << "T", "S" >> }

\* datetime values with the fields the function reads
InvoiceDates ==
    { [ year |-> 2024, month |-> 10, day |-> 15 ],
      [ year |-> 2024, month |-> 9, day |-> 5 ],
      [ year |-> 2025, month |-> 10, day |-> 5 ] }

\* config.INVOICE_NUMBER_TEMPLATE and the arguments of generate_invoice_number
NumberArguments ==
    [ template : Templates, client_code : ClientCodes, invoice_date : InvoiceDates ]

\* the arguments of the one call of a behaviour
InvoiceArguments ==
    ItemKwargs \cup InvoiceKwargs \cup DictArguments \cup NumberArguments

InitInvoice ==
    /\ now = 1
    /\ disk = [ c \in { Root } |-> EmptyDir ]
    /\ index = << >>
    /\ issued = << >>
    /\ \E args \in InvoiceArguments :
           last = Call("args", << >>, args, 0, FALSE, << >>, FALSE)

\* the outcome of a constructor or function: the value it returned, or raised
Outcome(op, args, valid, value) ==
    Call(op, << >>, args, 0, valid, IF valid THEN << value >> ELSE << >>, ~valid)

\* InvoiceItemModel(**last.data)
ConstructItem ==
    /\ last.op = "args"
    /\ "quantity" \in DOMAIN last.data
    /\ now' = now + 1
    /\ UNCHANGED << disk, index, issued >>
    /\ last' = Outcome("InvoiceItemModel", last.data,
                       InvoiceItemModelValid(last.data), InvoiceItemModel(last.data))

\* InvoiceModel(**last.data)
ConstructInvoice ==
    /\ last.op = "args"
    /\ "subtotal" \in DOMAIN last.data
    /\ now' = now + 1
    /\ UNCHANGED << disk, index, issued >>
    /\ last' = Outcome("InvoiceModel", last.data,
                       InvoiceModelValid(last.data), InvoiceModel(last.data))

\* the keyword arguments dict_to_invoice_model gives to InvoiceItemModel
LineItemKwargs(days_worked, hours_per_day, hourly_rate) ==
    [ quantity |-> days_worked,
      rate     |-> hourly_rate * hours_per_day,
      amount   |-> days_worked * hours_per_day * hourly_rate ]

\* the keyword arguments dict_to_invoice_model gives to InvoiceModel
InvoiceKwargsOf(invoice_dict, hours_per_day, hourly_rate) ==
    LET days_worked == Get(invoice_dict, "days_worked", 0)
        subtotal == days_worked * hours_per_day * hourly_rate
        tax_rate == Get(invoice_dict, "tax_rate", 0)
        tax_amount == TaxOf(subtotal, tax_rate)
    IN  [ line_items   |-> IF days_worked > 0
                           THEN << InvoiceItemModel(LineItemKwargs(days_worked, hours_per_day,
                                                                   hourly_rate)) >>
                           ELSE << >>,
          days_worked  |-> days_worked,
          subtotal     |-> subtotal,
          tax_rate     |-> tax_rate,
          tax_amount   |-> tax_amount,
          total_amount |-> subtotal + tax_amount ]

\* dict_to_invoice_model(invoice_dict) raises no ValidationError
dict_to_invoice_model_valid(invoice_dict, hours_per_day, hourly_rate) ==
    /\ Get(invoice_dict, "days_worked", 0) > 0
       => InvoiceItemModelValid(LineItemKwargs(invoice_dict.days_worked, hours_per_day,
                                               hourly_rate))
    /\ InvoiceModelValid(InvoiceKwargsOf(invoice_dict, hours_per_day, hourly_rate))

\* dict_to_invoice_model(invoice_dict) under the given configuration
dict_to_invoice_model(invoice_dict, hours_per_day, hourly_rate) ==
    InvoiceModel(InvoiceKwargsOf(invoice_dict, hours_per_day, hourly_rate))

\* a call of dict_to_invoice_model
DictToInvoiceModel ==
    /\ last.op = "args"
    /\ "invoice_dict" \in DOMAIN last.data
    /\ now' = now + 1
    /\ UNCHANGED << disk, index, issued >>
    /\ last' = Outcome("dict_to_invoice_model", last.data,
                       dict_to_invoice_model_valid(last.data.invoice_dict,
                                                   last.data.hours_per_day,
                                                   last.data.hourly_rate),
                       dict_to_invoice_model(last.data.invoice_dict,
                                             last.data.hours_per_day,
                                             last.data.hourly_rate))

\* s padded with the character fill to the width, on the left or on the right
PadLeft(s, width, fill) == [ i \in 1..(width - Len(s)) |-> fill ] \o s
PadRight(s, width, fill) == s \o [ i \in 1..(width - Len(s)) |-> fill ]

\* a format specification [0][width][type]: its zero flag, width and type
ZeroFlag(spec) == spec # << >> /\ spec[1] = "0"
AfterZero(spec) == IF ZeroFlag(spec) THEN Tail(spec) ELSE spec
HasWidth(spec) == AfterZero(spec) # << >> /\ AfterZero(spec)[1] \in DigitSet
WidthOf(spec) == IF HasWidth(spec) THEN IndexOf(AfterZero(spec)[1], DigitChars) - 1 ELSE 0
TypeOf(spec) == IF HasWidth(spec) THEN Tail(AfterZero(spec)) ELSE AfterZero(spec)

\* format(n, spec) of an int: the text, or ValueError
FormatIntValid(spec) == TypeOf(spec) \in { << >>, << "d" >> }
FormatInt(n, spec) ==
    PadLeft(Digits(n), WidthOf(spec), IF ZeroFlag(spec) THEN "0" ELSE " ")

\* format(s, spec) of a str: the text, or ValueError
FormatStrValid(spec) == ~ZeroFlag(spec) /\ TypeOf(spec) \in { << >>, << "s" >> }
FormatStr(s, spec) == PadRight(s, WidthOf(spec), " ")

\* template_vars of generate_invoice_number, invoice_counter being 1
TemplateVarNames ==
    { YearName, MonthName, DayName, ClientCodeName, InvoiceNumberName }
IntVarNames == { YearName, MonthName, DayName }
IntVar(name, invoice_date) ==
    IF name = YearName THEN invoice_date.year
    ELSE IF name = MonthName THEN invoice_date.month
    ELSE invoice_date.day
StrVar(name, client_code) ==
    IF name = ClientCodeName THEN client_code
    ELSE FormatInt(1, << "0", "3", "d" >>)

\* the name and the format specification of a replacement field "name:spec"
FieldName(field) ==
    IF Find(field, ":") = 0 THEN field ELSE SubSeq(field, 1, Find(field, ":") - 1)
FieldSpec(field) ==
    IF Find(field, ":") = 0 THEN << >>
    ELSE SubSeq(field, Find(field, ":") + 1, Len(field))

\* the exception one replacement field raises, "" if none: a field without a
\* name or with a number for a name takes a positional argument and none is
\* given; a name is looked up before its value is formatted
FieldError(field, client_code, invoice_date) ==
    IF Range(FieldName(field)) \subseteq DigitSet THEN "IndexError"
    ELSE IF FieldName(field) \notin TemplateVarNames THEN "KeyError"
    ELSE IF FieldName(field) \in IntVarNames
    THEN (IF FormatIntValid(FieldSpec(field)) THEN "" ELSE "ValueError")
    ELSE (IF FormatStrValid(FieldSpec(field)) THEN "" ELSE "ValueError")

FieldText(field, client_code, invoice_date) ==
    IF FieldName(field) \in IntVarNames
    THEN FormatInt(IntVar(FieldName(field), invoice_date), FieldSpec(field))
    ELSE FormatStr(StrVar(FieldName(field), client_code), FieldSpec(field))

\* template.format(**template_vars), read from left to right: the text, or the
\* first exception met
RECURSIVE Format(_, _, _)
Format(template, client_code, invoice_date) ==
    IF template = << >> THEN [ err |-> "", out |-> << >> ]
    ELSE IF Len(template) >= 2 /\ template[1] \in { "{", "}" } /\ template[2] = template[1]
    THEN LET rest == Format(SubSeq(template, 3, Len(template)), client_code, invoice_date)
         IN  [ err |-> rest.err, out |-> << template[1] >> \o rest.out ]
    ELSE IF template[1] = "}" THEN [ err |-> "ValueError", out |-> << >> ]
    ELSE IF template[1] = "{"
    THEN IF Find(template, "}") = 0 THEN [ err |-> "ValueError", out |-> << >> ]
         ELSE LET close == Find(template, "}")
                  field == SubSeq(template, 2, close - 1)
                  error == FieldError(field, client_code, invoice_date)
                  rest == Format(SubSeq(template, close + 1, Len(template)),
                                 client_code, invoice_date)
              IN  IF error # "" THEN [ err |-> error, out |-> << >> ]
                  ELSE [ err |-> rest.err,
                         out |-> FieldText(field, client_code, invoice_date) \o rest.out ]
    ELSE LET rest == Format(Tail(template), client_code, invoice_date)
         IN  [ err |-> rest.err, out |-> << template[1] >> \o rest.out ]

\* f"INV-{invoice_date.strftime('%Y%m')}-{client_code}"
FallbackNumber(client_code, invoice_date) ==
    << "I", "N", "V", "-" >> \o PadLeft(Digits(invoice_date.year), 4, "0")
        \o PadLeft(Digits(invoice_date.month), 2, "0") \o << "-" >> \o client_code

\* generate_invoice_number: only KeyError is caught
generate_invoice_number_raises(template, client_code, invoice_date) ==
    Format(template, client_code, invoice_date).err \in { "IndexError", "ValueError" }

generate_invoice_number(template, client_code, invoice_date) ==
    IF Format(template, client_code, invoice_date).err = "KeyError"
    THEN FallbackNumber(client_code, invoice_date)
    ELSE Format(template, client_code, invoice_date).out

\* a call of generate_invoice_number with the configured template
GenerateInvoiceNumber ==
    /\ last.op = "args"
    /\ "template" \in DOMAIN last.data
    /\ now' = now + 1
    /\ UNCHANGED << disk, index, issued >>
    /\ last' = Outcome("generate_invoice_number", last.data,
                       ~generate_invoice_number_raises(last.data.template,
                                                       last.data.client_code,
                                                       last.data.invoice_date),
                       generate_invoice_number(last.data.template,
                                               last.data.client_code,
                                               last.data.invoice_date))

NextInvoice ==
    \/ ConstructItem
    \/ ConstructInvoice
    \/ DictToInvoiceModel
    \/ GenerateInvoiceNumber

SpecInvoice == InitInvoice /\ [][NextInvoice]_vars

-----------------------------------------------------------------------------
(* Rendered invoices (invoicer.main, InvoiceGenerator.create_invoice).  In  *)
(* these runs issued is the invoices directory, the set of its files, each  *)
(* file being its year directory, its client directory and its name.        *)

\* the largest counter get_alternative_invoice_number tries
MaxSuffix == 999

\* datetime.now() at each tick of the clock: the year turns at the third tick
Clock(t) ==
    IF t <= 2
    THEN [ year |-> 2025, month |-> 12, day |-> 31,
           hour |-> 23, minute |-> 59, second |-> 57 + t ]
    ELSE [ year |-> 2026, month |-> 1, day |-> 1,
           hour |-> 0, minute |-> 0, second |-> t - 3 ]

\* datetime.strftime("%H%M%S")
TimeOfDay(d) ==
    FormatInt(d.hour, << "0", "2", "d" >>) \o FormatInt(d.minute, << "0", "2", "d" >>)
        \o FormatInt(d.second, << "0", "2", "d" >>)

\* f"Invoice_{invoice_number}.pdf"
PdfName(invoice_number) ==
    << "I", "n", "v", "o", "i", "c", "e", "_" >> \o invoice_number
        \o << ".", "p", "d", "f" >>

\* Path(INVOICES_DIR) / str(year) / client_code / filename
InvoicePath(year, client_code, filename) ==
    [ year |-> year, client_code |-> client_code, name |-> filename ]

\* check_invoice_exists(client_code, invoice_number, invoice_date)
check_invoice_exists(files, client_code, invoice_number, invoice_date) ==
    InvoicePath(invoice_date.year, client_code, PdfName(invoice_number)) \in files

\* f"{base_invoice_number}-{counter:03d}"
AlternativeNumber(base_invoice_number, counter) ==
    base_invoice_number \o << "-" >> \o FormatInt(counter, << "0", "3", "d" >>)

\* the pass that skips a counter after each number that exists
AlternativePassSkipping(files, client_code, base_invoice_number, invoice_date, counter, checks, today) ==
    IF ~check_invoice_exists(files, client_code,
                             AlternativeNumber(base_invoice_number, counter), invoice_date)
    THEN [ returned |-> TRUE, counter |-> counter, checks |-> checks + 1,
           number |-> << AlternativeNumber(base_invoice_number, counter) >> ]
    ELSE IF counter + 2 > MaxSuffix
    THEN [ returned |-> TRUE, counter |-> counter + 2, checks |-> checks + 1,
           number |-> << base_invoice_number \o << "-" >> \o TimeOfDay(today) >> ]
    ELSE [ returned |-> FALSE, counter |-> counter + 2, checks |-> checks + 1,
           number |-> << >> ]

\* the pass without the safety check on the counter
AlternativePassUncapped(files, client_code, base_invoice_number, invoice_date, counter, checks, today) ==
    IF ~check_invoice_exists(files, client_code,
                             AlternativeNumber(base_invoice_number, counter), invoice_date)
    THEN [ returned |-> TRUE, counter |-> counter, checks |-> checks + 1,
           number |-> << AlternativeNumber(base_invoice_number, counter) >> ]
    ELSE [ returned |-> FALSE, counter |-> counter + 1, checks |-> checks + 1,
           number |-> << >> ]

\* one pass of the loop of get_alternative_invoice_number, from the counter and
\* the number of existence checks made so far to the ones after it; the pass
\* returns a number, or leaves none and goes round again
AlternativePass(files, client_code, base_invoice_number, invoice_date, counter, checks, today) ==
    IF ~check_invoice_exists(files, client_code,
                             AlternativeNumber(base_invoice_number, counter), invoice_date)
    THEN [ returned |-> TRUE, counter |-> counter, checks |-> checks + 1,
           number |-> << AlternativeNumber(base_invoice_number, counter) >> ]
    ELSE IF counter + 1 > MaxSuffix
    THEN [ returned |-> TRUE, counter |-> counter + 1, checks |-> checks + 1,
           number |-> << base_invoice_number \o << "-" >> \o TimeOfDay(today) >> ]
    ELSE [ returned |-> FALSE, counter |-> counter + 1, checks |-> checks + 1,
           number |-> << >> ]

\* the files create_invoice writes: the year directory is that of the day of
\* the call
create_invoice(invoice_data, today) ==
    { InvoicePath(today.year, invoice_data.client_info.client_code,
                  PdfName(invoice_data.invoice_number)) }

CodeTST == << "T", "S", "T" >>
BaseNumber == << "I", "N", "V", "-", "2", "0", "2", "5", "1", "2", "-" >> \o CodeTST
LastOfDecember == [ year |-> 2025, month |-> 12, day |-> 31 ]
FirstOfJanuary == [ year |-> 2026, month |-> 1, day |-> 1 ]

\* the file of an invoice of TST rendered in 2025
Rendered2025(invoice_number) == InvoicePath(2025, CodeTST, PdfName(invoice_number))

\* every alternative -001 .. -999 of the base number, rendered
AllAlternatives ==
    { Rendered2025(AlternativeNumber(BaseNumber, n)) : n \in 1..MaxSuffix }

\* the invoices rendered with a time-of-day suffix at the times of the clock
Stamped ==
    { Rendered2025(BaseNumber \o << "-" >> \o TimeOfDay(Clock(t))) : t \in 1..MaxTime }

\* the invoices directory at the start of a run
RenderedAtStart ==
    { { },
      { Rendered2025(BaseNumber) },
      { Rendered2025(BaseNumber), Rendered2025(AlternativeNumber(BaseNumber, 1)) },
      { Rendered2025(BaseNumber), Rendered2025(AlternativeNumber(BaseNumber, 2)) },
      { Rendered2025(BaseNumber), Rendered2025(AlternativeNumber(BaseNumber, 1)),
        Rendered2025(AlternativeNumber(BaseNumber, 2)) },
      { Rendered2025(BaseNumber) } \cup AllAlternatives \cup Stamped }

\* the invoices given to create_invoice
InvoicesToRender ==
    { [ invoice_number |-> n, invoice_date |-> LastOfDecember,
        client_info |-> [ name |-> << "t" >>, email |-> EmailOk, client_code |-> CodeTST,
                          client_id |-> << "t" >> ],
        subtotal |-> 600 * Unit, tax_rate |-> 0, tax_amount |-> 0,
        total_amount |-> 600 * Unit, line_items |-> << >> ]
      : n \in { BaseNumber, AlternativeNumber(BaseNumber, 1) } }

InitRender ==
    /\ now = 1
    /\ disk = [ c \in { Root } |-> EmptyDir ]
    /\ index = << >>
    /\ issued \in RenderedAtStart
    /\ last = Call("start", << >>, NoData, 0, TRUE, << >>, FALSE)

\* a call of get_alternative_invoice_number is in its loop
InLoop == last.op = "get_alternative_invoice_number" /\ ~last.ok

\* InvoiceGenerator().create_invoice(invoice_data)
CreateInvoice ==
    /\ now < MaxTime
    /\ ~InLoop
    /\ \E invoice_data \in InvoicesToRender :
           /\ issued' = issued \cup create_invoice(invoice_data, Clock(now))
           /\ last' = Call("create_invoice", << >>, invoice_data, 0, TRUE,
                           create_invoice(invoice_data, Clock(now)), FALSE)
    /\ now' = now + 1
    /\ UNCHANGED << disk, index >>

\* check_invoice_exists(client_code, invoice_number, invoice_date)
CheckInvoiceExists ==
    /\ now < MaxTime
    /\ ~InLoop
    /\ \E invoice_number \in { BaseNumber, AlternativeNumber(BaseNumber, 1) },
          invoice_date \in { LastOfDecember, FirstOfJanuary } :
           last' = Call("check_invoice_exists", << >>,
                        [ client_code |-> CodeTST, invoice_number |-> invoice_number,
                          invoice_date |-> invoice_date ], 0,
                        check_invoice_exists(issued, CodeTST, invoice_number, invoice_date),
                        << >>, FALSE)
    /\ now' = now + 1
    /\ UNCHANGED << disk, index, issued >>

\* get_alternative_invoice_number(client_code, base_invoice_number, invoice_date)
\* is called: counter = 1, no existence check made yet
CallGetAlternative ==
    /\ now < MaxTime
    /\ ~InLoop
    /\ last' = Call("get_alternative_invoice_number", << >>,
                    [ client_code |-> CodeTST, base_invoice_number |-> BaseNumber,
                      invoice_date |-> LastOfDecember, counter |-> 1, checks |-> 0 ],
                    0, FALSE, << >>, FALSE)
    /\ now' = now + 1
    /\ UNCHANGED << disk, index, issued >>

\* one pass of its loop
LoopGetAlternative ==
    /\ InLoop
    /\ \A pass \in { AlternativePass(issued, last.data.client_code,
                                      last.data.base_invoice_number,
                                      last.data.invoice_date, last.data.counter,
                                      last.data.checks, Clock(now)) } :
           last' = [ last EXCEPT !.ok = pass.returned, !.rid = pass.number,
                                 !.data.counter = pass.counter,
                                 !.data.checks = pass.checks ]
    /\ UNCHANGED << disk, index, issued, now >>

NextRender ==
    \/ CreateInvoice
    \/ CheckInvoiceExists
    \/ CallGetAlternative
    \/ LoopGetAlternative

SpecRender == InitRender /\ [][NextRender]_vars

\* the loop is the running program: a pass that can be made is made
SpecRenderFair == SpecRender /\ WF_vars(LoopGetAlternative)

-----------------------------------------------------------------------------
(* E-mail delivery (invoicer.main.send_invoice_email, invoicer.email_sender). *)
(* In these runs last is the one call in progress: its entry point in op,    *)
(* the position and the variables of the program in data, the value it       *)
(* returned in ok.  now is time.time(), SecondsPerTick seconds to the tick.  *)

\* timeout of _wait_for_auth_code, in seconds
AuthTimeout == 300

\* the seconds between two readings of the clock
SecondsPerTick == 100

NoRequest == "none"
CodeRequest == "code"      \* GET /?code=c
OtherRequest == "other"    \* any request without a code parameter

\* the program at a position, with the variables it has
Program(op, pc) ==
    Call(op, << >>,
         [ pc            |-> pc,
           access_token  |-> None,      \* EmailSender.access_token
           authenticated |-> << >>,     \* what authenticate() returned, if it has
           auth_code     |-> None,      \* auth_code of _wait_for_auth_code
           start_time    |-> 0,         \* start_time of _wait_for_auth_code
           pending       |-> NoRequest, \* the request waiting at port 8080
           sent          |-> 0,         \* calls of send_email
           posted        |-> 0,         \* calls of requests.post
           send_result   |-> << >> ],   \* what send_email returned, if it has
         0, FALSE, << >>, FALSE)

\* the program has returned the value
Returned(value) == [ last EXCEPT !.ok = value, !.data.pc = "done" ]

\* the program is at the position
At(pc) == last.data.pc = pc

\* the program moves to the position
Goto(pc) == [ last EXCEPT !.data.pc = pc ]

InitEmail ==
    /\ now = 1
    /\ disk = [ c \in { Root } |-> EmptyDir ]
    /\ index = << >>
    /\ issued = << >>
    /\ last \in { Program("send_invoice_email", "construct"),
                  Program("send_email", "send") }

\* email_sender = EmailSender(): msal builds the client application, or raises
\* and send_invoice_email returns False
Construct ==
    /\ At("construct")
    /\ last' \in { Goto("authenticate"), Returned(FALSE) }
    /\ UNCHANGED << disk, index, now, issued >>

\* a send_invoice_email that goes on to send whatever authenticate() returned
AfterAuthenticateUnchecked(program, value) ==
    [ program EXCEPT !.data.authenticated = << value >>, !.data.pc = "send" ]

\* what send_invoice_email does with the value authenticate() returned
AfterAuthenticate(program, value) ==
    IF value
    THEN [ program EXCEPT !.data.authenticated = << TRUE >>, !.data.pc = "send" ]
    ELSE [ program EXCEPT !.data.authenticated = << FALSE >>, !.data.pc = "done",
                          !.ok = FALSE ]

\* authenticate(): a token is acquired silently and it returns True, or it
\* goes on to _interactive_authentication, or msal raises
Authenticate ==
    /\ At("authenticate")
    /\ last' \in { AfterAuthenticate([ last EXCEPT !.data.access_token = << "t" >> ], TRUE),
                   Goto("bind"),
                   Returned(FALSE) }
    /\ UNCHANGED << disk, index, now, issued >>

\* _wait_for_auth_code: the server binds port 8080 and start_time is read, or
\* binding raises, None is returned and authenticate returns False
Bind ==
    /\ At("bind")
    /\ last' \in { [ last EXCEPT !.data.pc = "test", !.data.start_time = now ],
                   AfterAuthenticate(last, FALSE) }
    /\ UNCHANGED << disk, index, now, issued >>

\* (time.time() - start_time) < timeout
BeforeTimeout(program, t) ==
    (t - program.data.start_time) * SecondsPerTick < AuthTimeout

\* the test of the while loop; when it fails _wait_for_auth_code returns
\* auth_code, and without one _interactive_authentication returns False
TestLoop ==
    /\ At("test")
    /\ last' = IF last.data.auth_code = None /\ BeforeTimeout(last, now)
               THEN Goto("handle")
               ELSE IF last.data.auth_code = None THEN AfterAuthenticate(last, FALSE)
               ELSE Goto("exchange")
    /\ UNCHANGED << disk, index, now, issued >>

\* the browser, or anyone, sends a request to port 8080
Arrive ==
    /\ last.op = "send_invoice_email"
    /\ last.data.pc \in { "test", "handle", "sleep" }
    /\ last.data.pending = NoRequest
    /\ \E request \in { CodeRequest, OtherRequest } :
           last' = [ last EXCEPT !.data.pending = request ]
    /\ UNCHANGED << disk, index, now, issued >>

\* httpd.handle_request(): waits for a request, for as long as it takes, and
\* gives it to AuthHandler.do_GET
HandleRequest ==
    /\ At("handle")
    /\ last.data.pending # NoRequest
    /\ last' = [ last EXCEPT !.data.pc = "sleep",
                             !.data.pending = NoRequest,
                             !.data.auth_code =
                                 IF last.data.pending = CodeRequest THEN << "c" >>
                                 ELSE last.data.auth_code ]
    /\ UNCHANGED << disk, index, now, issued >>

\* time.sleep(0.1)
Sleep ==
    /\ At("sleep")
    /\ last' = Goto("test")
    /\ UNCHANGED << disk, index, now, issued >>

\* time passes while the program waits
Tick ==
    /\ last.data.pc \in { "test", "handle", "sleep" }
    /\ BeforeTimeout(last, now)
    /\ now' = now + 1
    /\ UNCHANGED << disk, index, last, issued >>

\* acquire_token_by_authorization_code: a token, no token, or msal raises
Exchange ==
    /\ At("exchange")
    /\ last' \in { AfterAuthenticate([ last EXCEPT !.data.access_token = << "t" >> ], TRUE),
                   AfterAuthenticate(last, FALSE),
                   Returned(FALSE) }
    /\ UNCHANGED << disk, index, now, issued >>

\* EmailSender.send_email: the program after the call, posted being whether
\* requests.post returned status 202, another status, or raised
send_email(program, posted) ==
    IF program.data.access_token = None
    THEN [ program EXCEPT !.data.sent = @ + 1, !.data.send_result = << FALSE >> ]
    ELSE [ program EXCEPT !.data.sent = @ + 1, !.data.posted = @ + 1,
                          !.data.send_result = << posted = "202" >> ]

\* success = email_sender.send_email(...); return success
SendEmail ==
    /\ At("send")
    /\ \E posted \in { "202", "400", "raised" } :
           \A after \in { send_email(last, posted) } :
               last' = [ after EXCEPT !.data.pc = "done", !.ok = after.data.send_result[1] ]
    /\ UNCHANGED << disk, index, now, issued >>

NextEmail ==
    \/ Construct
    \/ Authenticate
    \/ Bind
    \/ TestLoop
    \/ Arrive
    \/ HandleRequest
    \/ Sleep
    \/ Tick
    \/ Exchange
    \/ SendEmail

SpecEmail == InitEmail /\ [][NextEmail]_vars

\* the program runs and time passes; nothing obliges a request to arrive
SpecEmailFair ==
    /\ SpecEmail
    /\ WF_vars(Construct \/ Authenticate \/ Bind \/ TestLoop \/ HandleRequest
                   \/ Sleep \/ Exchange \/ SendEmail)
    /\ WF_vars(Tick)

-----------------------------------------------------------------------------
(* The interactive workflow (invoicer.main.main) over the store of the two   *)
(* clients.  last is the run of main(): its position and variables in data,  *)
(* raised when it ended in sys.exit(1).  issued is the invoices directory.   *)

\* the ids of the clients the user can select, and None for details typed in
ClientsOfMain == { << "a" >>, << "a", "_", "1" >>, None }

\* the invoices get_invoice_details can return
InvoicesOfMain ==
    { [ invoice_data EXCEPT !.client_info.client_id = client_id ]
      : invoice_data \in InvoicesToRender, client_id \in ClientsOfMain }

\* main() at a position, with the variables it has
Main(pc) ==
    Call("main", << >>,
         [ pc           |-> pc,
           invoice_data |-> None,    \* invoice_data, once it is there
           pdf_path     |-> None,    \* pdf_path, once it is there
           offered      |-> FALSE,   \* the question on e-mail delivery was put
           emailed      |-> FALSE ], \* send_invoice_email was called
         0, FALSE, << >>, FALSE)

\* the invoices directories main() starts on
RenderedBeforeMain == { files \in RenderedAtStart : Cardinality(files) <= 3 }

InitMain ==
    /\ now \in 1..(MaxTime - 1)
    /\ disk = TwoClients
    /\ index = build_index_from_files(TwoClients)
    /\ issued \in RenderedBeforeMain
    /\ last = Main("details")

\* sys.exit(1) in the handler of Exception
Exit1 == [ last EXCEPT !.data.pc = "done", !.raised = TRUE ]

\* invoice_data = get_invoice_details(): an invoice, or None when the user
\* cancels or anything in it raises, and main() returns
GetInvoiceDetails ==
    /\ At("details")
    /\ \/ last' = Goto("done")
       \/ \E invoice_data \in InvoicesOfMain :
              last' = [ last EXCEPT !.data.pc = "render",
                                    !.data.invoice_data = << invoice_data >> ]
    /\ UNCHANGED << disk, index, now, issued >>

\* generator = InvoiceGenerator(...); pdf_path = generator.create_invoice(
\* invoice_data): the file is written, or either call raises
RenderInvoice ==
    /\ At("render")
    /\ now < MaxTime
    /\ now' = now + 1
    /\ \/ /\ issued' = issued \cup create_invoice(last.data.invoice_data[1], Clock(now))
          /\ last' = [ last EXCEPT
                         !.data.pc = "record",
                         !.data.pdf_path =
                             << create_invoice(last.data.invoice_data[1], Clock(now)) >> ]
       \/ /\ last' = Exit1
          /\ UNCHANGED issued
    /\ UNCHANGED << disk, index >>

\* if invoice_data.client_info.client_id: pass
RecordCreation ==
    /\ At("record")
    /\ last' = Goto("offer")
    /\ UNCHANGED << disk, index, now, issued >>

\* send_email = input("Send this invoice via email? (y/n): ")
OfferEmail ==
    /\ At("offer")
    /\ \E answer \in { "y", "n" } :
           last' = [ last EXCEPT !.data.offered = TRUE,
                                 !.data.pc = IF answer = "y" THEN "send" ELSE "done" ]
    /\ UNCHANGED << disk, index, now, issued >>

\* send_invoice_email(invoice_data, pdf_path); what it returns is not used
SendInvoiceEmail ==
    /\ At("send")
    /\ last' = [ last EXCEPT !.data.emailed = TRUE, !.data.pc = "done" ]
    /\ UNCHANGED << disk, index, now, issued >>

NextMain ==
    \/ GetInvoiceDetails
    \/ RenderInvoice
    \/ RecordCreation
    \/ OfferEmail
    \/ SendInvoiceEmail

SpecMain == InitMain /\ [][NextMain]_vars

-----------------------------------------------------------------------------
(* Properties of the client repository *)

\* get_client for every directory of the store
Clients(d) == [ c \in DOMAIN d |-> get_client(d, c) ]

\* the ids get_client resolves to a client
Present(d) == { c \in DOMAIN d : get_client(d, c) # None }

\* the clients get_client resolves before and after a step
Kept(before, after) ==
    { c \in DOMAIN before \cap DOMAIN after : before[c] # None /\ after[c] # None }

AddReturned == last.op = "add_client" /\ last.ok

\* C1: no two clients of the store share an id, and an add_client whose name
\* slugs to the id of a client already in the store returns an id that no
\* client of the store has, made of the slug, "_" and a number.
C1_UniqueIdsAndSuffix ==
    /\ [](\A c1, c2 \in Present(disk) :
              c1 # c2 => get_client(disk, c1)[1].id # get_client(disk, c2)[1].id)
    /\ [][ (last'.op = "add_client" /\ last'.ok
               /\ Slug(last'.data.name) \in Present(disk))
           => /\ last'.rid \notin Present(disk)
              /\ \E n \in 1..MaxTime :
                     last'.rid = Slug(last'.data.name) \o << "_" >> \o Digits(n) ]_vars

\* C2 as claimed: an id add_client returned is not returned by a later
\* add_client, also after the client was deleted (stated for the non-empty
\* ids, which leaves the empty id of C5 aside).
C2_NeverReturnedAgain ==
    \A i, j \in 1..Len(issued) :
        (i < j /\ issued[i] # Root) => issued[i] # issued[j]

\* C2 as amended: add_client never returns the id of a client that is in the
\* index when it is called; an id whose client was deleted may come back.
C2_NotAnIndexedId ==
    [][ (last'.op = "add_client" /\ last'.ok) => last'.rid \notin DOMAIN index ]_vars

\* an id was returned, its client deleted, and the id returned again
C2_ReturnedAfterDelete ==
    /\ AddReturned
    /\ last.rid # Root
    /\ \E i \in 1..(Len(issued) - 1) : issued[i] = last.rid

\* C3: after a completed operation the index is the one
\* _build_index_from_files builds from the files on disk.
C3_IndexMatchesDisk ==
    (~last.raised /\ DirExists(disk, Root)) => index = build_index_from_files(disk)


\* the value ClientModel stores for field k when given v
Stored(k, v) ==
    CASE k = "name" -> Strip(v)
      [] k = "email" -> EmailNormalized(v)
      [] k = "client_code" -> Upper(v)
      [] OTHER -> v

\* C4: add_client then get_client returns every supplied field as supplied,
\* client_code upper-cased (stated for inputs whose name carries no outer
\* whitespace and whose email is already in normal form).
C4_RoundTrip ==
    (AddReturned /\ last.data.name = Strip(last.data.name)
                 /\ last.data.email = EmailNormalized(last.data.email))
    => /\ get_client(disk, last.rid) # None
       /\ \A k \in DOMAIN last.data :
              /\ k \in DOMAIN get_client(disk, last.rid)[1]
              /\ get_client(disk, last.rid)[1][k]
                     = IF k = "client_code" THEN Upper(last.data[k]) ELSE last.data[k]

\* C5: after add_client returned id i, list_clients holds exactly one summary
\* with id i, lists one client more than before, and get_client(i) is that client.
C5_AddedIsListed ==
    [][ (last'.op = "add_client" /\ last'.ok)
        => /\ Cardinality({ s \in Summaries(index') : s.id = last'.rid }) = 1
           /\ Len(list_clients(index')) = Len(list_clients(index)) + 1
           /\ get_client(disk', last'.rid) # None
           /\ get_client(disk', last'.rid)[1].id = last'.rid ]_vars

\* C6 as claimed: no update_client or record_invoice call lowers the
\* total_invoices or the total_amount of a client.
C6_CountersNeverDecrease ==
    [][ last'.op \in { "update_client", "record_invoice" }
        => \A before \in { Clients(disk) }, after \in { Clients(disk') } :
               \A c \in Kept(before, after) :
                   /\ after[c][1].total_invoices >= before[c][1].total_invoices
                   /\ after[c][1].total_amount >= before[c][1].total_amount ]_vars

\* C6 as amended: record_invoice never lowers total_invoices, and never lowers
\* total_amount when days_worked >= 0; an update_client that names neither
\* counter leaves both as they were (one that names a counter sets it to the
\* given non-negative value, which may be lower).
C6_CountersUnderRecord ==
    [][ last'.op \in { "update_client", "record_invoice" }
        => \A before \in { Clients(disk) }, after \in { Clients(disk') } :
               \A c \in Kept(before, after) :
                 LET old == before[c][1]
                     new == after[c][1]
                 IN  /\ last'.op = "record_invoice"
                        => /\ new.total_invoices >= old.total_invoices
                           /\ last'.days >= 0 => new.total_amount >= old.total_amount
                     /\ (last'.op = "update_client"
                            /\ "total_invoices" \notin DOMAIN last'.data)
                        => new.total_invoices = old.total_invoices
                     /\ (last'.op = "update_client"
                            /\ "total_amount" \notin DOMAIN last'.data)
                        => new.total_amount = old.total_amount ]_vars

\* an invoice was recorded for a client whose counter an update had set before
C6_RecordedAfterUpdate ==
    /\ last.op = "record_invoice" /\ last.ok /\ last.days > 0
    /\ get_client(disk, last.id)[1].total_invoices = 3
    /\ get_client(disk, last.id)[1].total_amount > 0

\* C7: no update_client or record_invoice call changes the id or the
\* created_date get_client returns for any client, and an update_client that
\* names id or created_date still applies the other fields it names.
C7_IdAndCreatedDateKept ==
    [][ last'.op \in { "update_client", "record_invoice" }
        => \A before \in { Clients(disk) }, after \in { Clients(disk') } :
               /\ \A c \in DOMAIN before :
                      before[c] # None
                      => /\ c \in DOMAIN after /\ after[c] # None
                         /\ after[c][1].id = before[c][1].id
                         /\ after[c][1].created_date = before[c][1].created_date
               /\ (last'.op = "update_client" /\ last'.ok)
                  => \A k \in (DOMAIN last'.data \ ImmutableFields)
                                  \cap DOMAIN after[last'.id][1] :
                         after[last'.id][1][k] = Stored(k, last'.data[k]) ]_vars

\* an update naming id and created_date went through: its other field is
\* applied, id and created_date are not the ones it named
C7_UpdateNamedImmutable ==
    /\ last.op = "update_client" /\ last.ok
    /\ ImmutableFields \subseteq DOMAIN last.data
    /\ get_client(disk, last.id)[1].address = last.data.address
    /\ get_client(disk, last.id)[1].id = last.id
    /\ last.data.id # last.id
    /\ get_client(disk, last.id)[1].created_date # fromisoformat(last.data.created_date)

\* the updates the claim lists as failing validation
InvalidUpdate(u) ==
    \/ "email" \in DOMAIN u /\ ~EmailValid(u.email)
    \/ "name" \in DOMAIN u /\ Strip(u.name) = << >>
    \/ "client_code" \in DOMAIN u /\ Len(u.client_code) \notin MinCodeLen..MaxCodeLen
    \/ "total_invoices" \in DOMAIN u /\ u.total_invoices < 0
    \/ "total_amount" \in DOMAIN u /\ u.total_amount < 0

\* C8: an update_client whose merged record fails validation, or whose id has
\* no readable record, returns False, and an update_client that returns False
\* leaves every file and the index as they were.
C8_RejectedUpdateChangesNothing ==
    [][ last'.op = "update_client"
        => /\ (get_client(disk, last'.id) = None \/ InvalidUpdate(last'.data)) => ~last'.ok
           /\ ~last'.ok => (disk' = disk /\ index' = index) ]_vars

\* an invalid update of an existing client was rejected
C8_InvalidUpdateRejected ==
    /\ last.op = "update_client" /\ ~last.ok
    /\ get_client(disk, last.id) # None
    /\ InvalidUpdate(last.data)

NamedInIndex == { "name", "email", "client_code" }

\* C9: after update_client(id, f) returned True with f naming name, email or
\* client_code, get_client(id) and list_clients() show the new values (as
\* ClientModel stores them) and the fields f does not name are unchanged.
C9_UpdateVisible ==
    [][ (last'.op = "update_client" /\ last'.ok /\ DOMAIN last'.data \cap NamedInIndex # { })
        => /\ get_client(disk', last'.id) # None
           /\ \A k \in DOMAIN last'.data \cap NamedInIndex :
                  get_client(disk', last'.id)[1][k] = Stored(k, last'.data[k])
           /\ \A k \in DOMAIN get_client(disk, last'.id)[1] \ DOMAIN last'.data :
                  get_client(disk', last'.id)[1][k] = get_client(disk, last'.id)[1][k]
           /\ \E s \in Summaries(index') :
                  /\ s.id = last'.id
                  /\ \A k \in DOMAIN last'.data \cap NamedInIndex :
                         s[k] = Stored(k, last'.data[k]) ]_vars

\* C10: delete_client(id) returns True exactly when the directory of id
\* existed, and after it returned True the client, its projects, its index
\* entry and its directory are gone (a second delete_client(id) returns False).
C10_DeleteClient ==
    [][ last'.op = "delete_client"
        => /\ last'.ok <=> DirExists(disk, last'.id)
           /\ last'.ok => /\ get_client(disk', last'.id) = None
                          /\ Projects(disk', last'.id) = { }
                          /\ \A s \in Summaries(index') : s.id # last'.id
                          /\ ~DirExists(disk', last'.id) ]_vars

\* the fields of a client record that record_invoice sets
RecordedFields == { "total_invoices", "total_amount", "last_invoice_date" }

\* every directory other than that of client_id is the same in d1 and d2
OthersUntouched(d1, d2, client_id) ==
    /\ DOMAIN d2 = DOMAIN d1
    /\ \A c \in DOMAIN d1 \ { client_id } : d2[c] = d1[c]

\* what C11 claims of a record_invoice call on a client old that get_client
\* resolves: it does not raise and new is old with the three statistics moved on
RecordedAsClaimed(old, new, days_worked, at) ==
    /\ new # None
    /\ new[1].total_invoices = old[1].total_invoices + 1
    /\ new[1].total_amount = old[1].total_amount + days_worked * HOURS_PER_DAY * HOURLY_RATE
    /\ new[1].last_invoice_date = at
    /\ \A k \in DOMAIN old[1] \ RecordedFields : new[1][k] = old[1][k]

\* C11 as claimed: record_invoice(id, days) on an existing client adds 1 to
\* total_invoices and days x HOURS_PER_DAY x HOURLY_RATE to total_amount, sets
\* last_invoice_date to the time of the call, and changes no other field of
\* that client and no other client; on an id with no client it changes neither
\* the disk nor the index and raises nothing.
C11_RecordInvoice ==
    [][ last'.op = "record_invoice"
        => \A old \in { get_client(disk, last'.id) }, new \in { get_client(disk', last'.id) } :
               IF old = None
               THEN disk' = disk /\ index' = index /\ ~last'.raised
               ELSE /\ ~last'.raised
                    /\ RecordedAsClaimed(old, new, last'.days, now)
                    /\ OthersUntouched(disk, disk', last'.id) ]_vars

\* C11 as amended: the above holds when the new total_amount is not negative;
\* when it would be negative (days < 0), record_invoice raises the model's
\* validation error and changes neither the disk nor the index.
C11_RecordInvoiceValidTotal ==
    [][ last'.op = "record_invoice"
        => \A old \in { get_client(disk, last'.id) }, new \in { get_client(disk', last'.id) } :
               IF old = None
               THEN disk' = disk /\ index' = index /\ ~last'.raised
               ELSE IF old[1].total_amount + last'.days * HOURS_PER_DAY * HOURLY_RATE >= 0
               THEN /\ ~last'.raised
                    /\ RecordedAsClaimed(old, new, last'.days, now)
                    /\ OthersUntouched(disk, disk', last'.id)
               ELSE last'.raised /\ disk' = disk /\ index' = index ]_vars

\* an invoice of some days was recorded for one of two clients of the store
C11_RecordedBesideAnother ==
    /\ last.op = "record_invoice" /\ last.ok /\ last.days > 0
    /\ get_client(disk, last.id)[1].total_amount = last.days * HOURS_PER_DAY * HOURLY_RATE
    /\ get_client(disk, last.id)[1].last_invoice_date = now - 1
    /\ Cardinality(Present(disk)) >= 2

\* the client_data the claim lists as failing validation
InvalidClientData(client_data) ==
    \/ ~EmailValid(client_data.email)
    \/ Strip(client_data.name) = << >>
    \/ ("client_code" \in DOMAIN client_data /\ Len(client_data.client_code) > MaxCodeLen)

\* C12: an add_client whose data fails validation (malformed email, empty
\* name, client_code longer than 10) raises and leaves every directory, every
\* file and the index as they were; an add_project on a client id that
\* get_client does not resolve returns None and leaves them as they were.
C12_FailedCreateChangesNothing ==
    [][ /\ (last'.op = "add_client" /\ InvalidClientData(last'.data))
           => (last'.raised /\ ~last'.ok /\ disk' = disk /\ index' = index)
        /\ (last'.op = "add_client" /\ ~last'.ok) => (disk' = disk /\ index' = index)
        /\ (last'.op = "add_project" /\ get_client(disk, last'.id) = None)
           => (~last'.ok /\ last'.rid = None /\ disk' = disk /\ index' = index) ]_vars

\* an add_client with a client_code of 11 characters was rejected on a store
\* that holds a client
C12_RejectedOnNonEmptyStore ==
    /\ last.op = "add_client" /\ last.raised
    /\ "client_code" \in DOMAIN last.data /\ Len(last.data.client_code) > MaxCodeLen
    /\ Present(disk) # { }
    /\ DOMAIN index # { }

\* str.startswith(prefix)
StartsWith(s, prefix) ==
    Len(s) >= Len(prefix) /\ SubSeq(s, 1, Len(prefix)) = prefix

\* every project record of the store, with the directory that holds it
StoredProjects(d) ==
    UNION { { << c, pr >> : pr \in Projects(d, c) } : c \in DOMAIN d }

\* C13: an add_project(c, n) that succeeds returns an id that no project
\* stored under c has, beginning with c and "_"; and in every state the
\* projects stored under one client have pairwise distinct ids, each
\* get_project resolves to that very project, and each is in list_projects(c).
C13_ProjectIdsOfOneClient ==
    /\ [][ (last'.op = "add_project" /\ last'.ok)
           => /\ last'.rid \notin { pr.id : pr \in Projects(disk, last'.id) }
              /\ StartsWith(last'.rid, last'.id \o << "_" >>)
              /\ \E pr \in Projects(disk', last'.id) : pr.id = last'.rid ]_vars
    /\ [](\A c \in Present(disk) :
              \A pr \in Projects(disk, c) :
                  /\ \A other \in Projects(disk, c) : other # pr => other.id # pr.id
                  /\ StartsWith(pr.id, c \o << "_" >>)
                  /\ get_project(disk, pr.id) = { pr }
                  /\ \E i \in 1..Len(list_projects(disk, c)) : list_projects(disk, c)[i] = pr)

\* C14: after add_project(c, n) returned p, and for as long as the file it
\* wrote is in the store, get_project(p) returns the project of client c
\* named n stripped, whatever else the store holds.
C14_GetProjectReturnsAdded ==
    /\ [][ (last'.op = "add_project" /\ last'.ok)
           => \A pr \in get_project(disk', last'.rid) :
                  pr.client_id = last'.id /\ pr.name = Strip(last'.data) ]_vars
    /\ [](\A cp \in StoredProjects(disk) :
              /\ get_project(disk, cp[2].id) # { }
              /\ \A pr \in get_project(disk, cp[2].id) :
                     pr.client_id = cp[1] /\ pr.name = cp[2].name)

\* the project files of the store: directory and file name
ProjectFiles(d) ==
    UNION { { << c, p >> : p \in DOMAIN d[c].projects } : c \in DOMAIN d }

\* C15: a delete_project(p) that returns True leaves get_project(p) absent,
\* removes one project file and changes no other file; delete_project returns
\* False exactly when get_project(p) was absent, and then changes nothing.
C15_DeleteProject ==
    [][ last'.op = "delete_project"
        => /\ last'.ok <=> get_project(disk, last'.id) # { }
           /\ last'.ok
              => /\ get_project(disk', last'.id) = { }
                 /\ DOMAIN disk' = DOMAIN disk
                 /\ \E gone \in ProjectFiles(disk) :
                        /\ disk[gone[1]].projects[gone[2]].id = last'.id
                        /\ disk' = UnlinkProjectFile(disk, gone[1], gone[2])
           /\ ~last'.ok => (disk' = disk /\ index' = index) ]_vars

\* text contains query when letter case is ignored
ContainsIgnoringCase(text, query) ==
    \E i \in 0..(Len(text) - Len(query)) :
        \A k \in 1..Len(query) : UpperChar(text[i + k]) = UpperChar(query[k])

\* the position of entry x in the sequence s
PositionIn(s, x) == CHOOSE i \in 1..Len(s) : s[i] = x

\* C16: search_clients(q) holds exactly the entries of list_clients() whose
\* name or email contains q ignoring letter case, each once and in the order
\* of list_clients(); search_clients("") is list_clients().
C16_SearchClients ==
    \A all \in { list_clients(index) } :
        \A q \in Queries :
               \A found \in { search_clients(index, q) } :
                   /\ q = << >> => found = all /\ Len(found) = Cardinality(Summaries(index))
                   /\ \A i \in 1..Len(all) :
                          (ContainsIgnoringCase(all[i].name, q)
                              \/ ContainsIgnoringCase(all[i].email, q))
                          <=> \E j \in 1..Len(found) : found[j] = all[i]
                   /\ \A j \in 1..Len(found) : \E i \in 1..Len(all) : all[i] = found[j]
                   /\ \A j1, j2 \in 1..Len(found) :
                          j1 < j2 => PositionIn(all, found[j1]) < PositionIn(all, found[j2])

\* a query in upper case finds some of the listed clients, more than one, and
\* not all of them
C16_UpperCaseQueryFindsSome ==
    \E q \in Queries :
        /\ q # Lower(q)
        /\ Len(search_clients(index, q)) > 1
        /\ Len(search_clients(index, q)) < Len(list_clients(index))

\* the record file is malformed in one of the ways the claim lists: no JSON,
\* a required key missing, a created_date that is no string, an invalid email
Malformed(file) ==
    \/ Unparsable(file)
    \/ ~(RequiredFields \subseteq DOMAIN WithoutCompany(file))
    \/ ("created_date" \in DOMAIN file /\ FromIsoTypeError(file.created_date))
    \/ ("email" \in DOMAIN file /\ ~EmailValid(file.email))

\* C17: get_client returns None for every id whose record file is malformed,
\* and list_clients, on the index built from such a store, does not raise and
\* lists every client whose record get_client resolves.
C17_MalformedFilesSkipped ==
    /\ [](\A c \in ClientDirs(disk) :
              (disk[c].client # NoFile /\ Malformed(disk[c].client[1]))
              => get_client(disk, c) = None)
    /\ [][ last'.op = "list_clients"
           => /\ ~last'.raised
              /\ \A c \in ClientDirs(disk) :
                     get_client(disk, c) # None
                     => \E i \in 1..Len(list_clients(index)) : list_clients(index)[i].id = c ]_vars

\* x and y differ by at most 0.01
Within(x, y) == Abs(x - y) <= Tolerance

\* the arithmetic the claim requires of a line item
ItemConsistent(item) == Within(item.amount, item.quantity * item.rate)

\* the arithmetic the claim requires of an invoice
InvoiceConsistent(inv) ==
    /\ Within(inv.tax_amount, TaxOf(inv.subtotal, inv.tax_rate))
    /\ Within(inv.total_amount, inv.subtotal + inv.tax_amount)
    /\ inv.line_items # << >> => Within(inv.subtotal, SumAmounts(inv.line_items))

\* C18: a line item or invoice that is constructed satisfies, within 0.01,
\* amount = quantity x rate, tax_amount = subtotal x tax_rate, total_amount =
\* subtotal + tax_amount and, with line items, subtotal = the sum of their
\* amounts; and a construction whose values, supplied or defaulted, violate
\* one of these raises a validation error.
C18_ConstructedIsConsistent ==
    /\ (last.op = "InvoiceItemModel" /\ last.ok) => ItemConsistent(last.rid[1])
    /\ (last.op = "InvoiceItemModel" /\ ~ItemConsistent(last.data)) => last.raised
    /\ (last.op = "InvoiceModel" /\ last.ok) => InvoiceConsistent(last.rid[1])
    /\ (last.op = "InvoiceModel" /\ ~InvoiceConsistent(WithDefaults(last.data)))
       => last.raised

\* C19: for days d >= 0, hours per day h > 0, hourly rate r > 0 and a tax rate
\* t in [0, 1], dict_to_invoice_model returns an invoice with subtotal = d*h*r,
\* tax_amount = round(subtotal*t, 2), total_amount = round(subtotal +
\* tax_amount, 2), one line item (quantity d, rate h*r, amount = subtotal) when
\* d > 0 and none when d = 0.
C19_DictToInvoiceModel ==
    last.op = "dict_to_invoice_model"
    => \A d \in { Get(last.data.invoice_dict, "days_worked", 0) },
          t \in { Get(last.data.invoice_dict, "tax_rate", 0) } :
           /\ last.ok
           /\ last.rid[1].subtotal = d * last.data.hours_per_day * last.data.hourly_rate
           /\ last.rid[1].tax_amount = Round2(TaxOf(last.rid[1].subtotal, t))
           /\ last.rid[1].total_amount
                  = Round2(last.rid[1].subtotal + last.rid[1].tax_amount)
           /\ d = 0 => last.rid[1].line_items = << >>
           /\ d > 0 => last.rid[1].line_items
                           = << [ quantity |-> d,
                                  rate     |-> last.data.hours_per_day * last.data.hourly_rate,
                                  amount   |-> last.rid[1].subtotal ] >>

\* the names of the replacement fields of a template
RECURSIVE FieldNames(_)
FieldNames(template) ==
    IF template = << >> THEN { }
    ELSE IF Len(template) >= 2 /\ template[1] \in { "{", "}" } /\ template[2] = template[1]
    THEN FieldNames(SubSeq(template, 3, Len(template)))
    ELSE IF template[1] = "{" /\ Find(template, "}") # 0
    THEN { FieldName(SubSeq(template, 2, Find(template, "}") - 1)) }
             \cup FieldNames(SubSeq(template, Find(template, "}") + 1, Len(template)))
    ELSE FieldNames(Tail(template))

\* a template with a placeholder that is not one of the five variables
HasUnrecognizedPlaceholder(template) ==
    \E name \in FieldNames(template) : name # << >> /\ name \notin TemplateVarNames

TwoDigits(n) == << DigitChars[(n \div 10) + 1], DigitChars[(n % 10) + 1] >>

\* "INV-<yyyy><mm>-<code>"
DefaultNumber(client_code, invoice_date) ==
    << "I", "N", "V", "-" >> \o Digits(invoice_date.year)
        \o TwoDigits(invoice_date.month) \o << "-" >> \o client_code

\* C20: with the template "INV-{year}{month:02d}-{client_code}",
\* generate_invoice_number yields "INV-<yyyy><mm>-<code>", which differs
\* whenever the month or the client code differs; the year, the month and the
\* day (plain or zero padded to two digits), the client code and the counter
\* "001" are substituted; and a template with an unrecognized placeholder
\* yields "INV-<yyyy><mm>-<code>" instead of failing.
C20_GenerateInvoiceNumber ==
    last.op = "generate_invoice_number"
    => \A code \in { last.data.client_code }, date \in { last.data.invoice_date } :
           /\ last.data.template = DefaultTemplate
              => /\ last.ok
                 /\ last.rid[1] = DefaultNumber(code, date)
                 /\ \A c \in ClientCodes, d \in InvoiceDates :
                        (c # code \/ d.month # date.month)
                        => generate_invoice_number(DefaultTemplate, c, d) # last.rid[1]
           /\ last.data.template = EveryVariableTemplate
              => /\ last.ok
                 /\ last.rid[1] = Digits(date.year) \o << "/" >> \o Digits(date.month)
                        \o << "/" >> \o Digits(date.day) \o << "/" >>
                        \o TwoDigits(date.month) \o << "/" >> \o TwoDigits(date.day)
                        \o << "/" >> \o code \o << "/", "0", "0", "1" >>
           /\ HasUnrecognizedPlaceholder(last.data.template)
              => /\ last.ok
                 /\ last.rid[1] = DefaultNumber(code, date)

\* f"Invoice_{invoice_number}.json", the sidecar of a rendered invoice
JsonName(invoice_number) ==
    << "I", "n", "v", "o", "i", "c", "e", "_" >> \o invoice_number
        \o << ".", "j", "s", "o", "n" >>

\* n as three digits
ThreeDigits(n) ==
    << DigitChars[(n \div 100) + 1], DigitChars[((n \div 10) % 10) + 1],
       DigitChars[(n % 10) + 1] >>

\* no file Invoice_<base-NNN>.pdf exists for N = n in the client's year directory
FreeSuffix(n) ==
    InvoicePath(last.data.invoice_date.year, last.data.client_code,
                PdfName(last.data.base_invoice_number \o << "-" >> \o ThreeDigits(n)))
        \notin issued

\* get_alternative_invoice_number has returned
ReturnedAlternative == last.op = "get_alternative_invoice_number" /\ last.ok

\* C21: when a rendered invoice exists for the base number,
\* get_alternative_invoice_number(code, base, date) returns base-NNN, three
\* digits zero padded, for the smallest N in 1..999 such that no file
\* Invoice_<base-NNN>.pdf exists in the client's year directory.
C21_SmallestFreeSuffix ==
    (/\ ReturnedAlternative
     /\ check_invoice_exists(issued, last.data.client_code,
                             last.data.base_invoice_number, last.data.invoice_date)
     /\ \E n \in 1..MaxSuffix : FreeSuffix(n))
    => \A smallest \in { CHOOSE n \in 1..MaxSuffix :
                              FreeSuffix(n) /\ \A m \in 1..(n - 1) : ~FreeSuffix(m) } :
           last.rid = << last.data.base_invoice_number \o << "-" >>
                             \o ThreeDigits(smallest) >>

\* -002 is returned when the base number and -001 exist
C21_SecondSuffixReturned ==
    /\ ReturnedAlternative
    /\ Rendered2025(BaseNumber) \in issued
    /\ ~FreeSuffix(1)
    /\ last.rid = << BaseNumber \o << "-", "0", "0", "2" >> >>

\* C22: every successful create_invoice writes, in one directory, both
\* Invoice_<invoice_number>.pdf and the sidecar Invoice_<invoice_number>.json,
\* so that every PDF it rendered has its sidecar next to it.
C22_SidecarBesidePdf ==
    (last.op = "create_invoice" /\ last.ok)
    => \E year \in { f.year : f \in last.rid }, code \in { f.client_code : f \in last.rid } :
           /\ InvoicePath(year, code, PdfName(last.data.invoice_number)) \in issued
           /\ InvoicePath(year, code, JsonName(last.data.invoice_number)) \in issued

\* C24: the file create_invoice writes for an invoice with number n, client
\* code c and invoice date d is <invoices-root>/<year of d>/<c>/Invoice_<n>.pdf,
\* so that check_invoice_exists(c, n, d) is true once create_invoice has
\* succeeded, whatever the current date is.
C24_WrittenWhereChecked ==
    (last.op = "create_invoice" /\ last.ok)
    => /\ InvoicePath(last.data.invoice_date.year, last.data.client_info.client_code,
                      PdfName(last.data.invoice_number)) \in last.rid
       /\ check_invoice_exists(issued, last.data.client_info.client_code,
                               last.data.invoice_number, last.data.invoice_date)

\* C26: get_alternative_invoice_number always terminates: it makes at most 999
\* existence checks, of the suffixes -001 to -999, each once and in increasing
\* order, and when every one of them names an existing file it returns the
\* base number followed by the time of day, without failing.
C26_AlternativeTerminates ==
    /\ [](last.op = "get_alternative_invoice_number"
            => /\ ~last.raised
               /\ last.data.checks <= MaxSuffix
               /\ ~last.ok => last.data.counter = last.data.checks + 1
               /\ (last.ok /\ \A n \in 1..MaxSuffix : ~FreeSuffix(n))
                  => /\ last.data.checks = MaxSuffix
                     /\ \E t \in 1..now :
                            last.rid = << last.data.base_invoice_number \o << "-" >>
                                              \o TimeOfDay(Clock(t)) >>)
    /\ (InLoop ~> ReturnedAlternative)

\* the time-of-day number is returned after 999 checks
C26_FallbackReturned ==
    /\ ReturnedAlternative
    /\ last.data.checks = MaxSuffix
    /\ Len(last.rid[1]) = Len(BaseNumber) + 7

\* C30: the number get_alternative_invoice_number returns names no existing
\* rendered invoice: check_invoice_exists(code, returned number, date) is false
\* when the function returns.
C30_ReturnedNumberIsFree ==
    ReturnedAlternative
    => ~check_invoice_exists(issued, last.data.client_code, last.rid[1],
                             last.data.invoice_date)


\* C28: after any sequence of add_client and add_project calls no two stored
\* projects have the same id, also when they belong to different clients, so
\* that a project id identifies at most one project file of the store.
C28_ProjectIdsUniqueInStore ==
    \A x \in StoredProjects(disk) :
        \A y \in StoredProjects(disk) : x # y => x[2].id # y[2].id

\* C29: delete_client(id), for any id add_client has returned (also for a name
\* without an alphanumeric character), removes only the record and the
\* projects of that client: every other client's record file and project
\* files are unchanged and still retrievable afterwards.
C29_DeleteLeavesOthers ==
    [][ (last'.op = "delete_client" /\ \E i \in 1..Len(issued) : issued[i] = last'.id)
        => \A c \in ClientDirs(disk) \ { last'.id } :
               /\ DirExists(disk', c)
               /\ disk'[c] = disk[c]
               /\ get_client(disk', c) = get_client(disk, c)
               /\ Projects(disk', c) = Projects(disk, c) ]_vars

\* C23: send_invoice_email calls send_email only once authenticate() has
\* returned True in the same call; when authenticate() returned False it
\* returns False and send_email was never called; when it returned True the
\* value returned is the value send_email returned; and send_email returns
\* False without a requests.post when no access token has been obtained.
C23_SendOnlyWhenAuthenticated ==
    /\ [](last.op = "send_invoice_email" =>
            /\ last.data.sent > 0 => last.data.authenticated = << TRUE >>
            /\ At("done") /\ last.data.authenticated = << FALSE >> =>
                   ~last.ok /\ last.data.sent = 0 /\ last.data.posted = 0
            /\ At("done") /\ last.data.authenticated = << TRUE >> =>
                   last.data.sent = 1 /\ last.data.send_result = << last.ok >>)
    /\ [](/\ last.data.posted > 0 => last.data.access_token # None
          /\ last.data.posted <= last.data.sent
          /\ last.data.sent > 0 /\ last.data.access_token = None =>
                 last.data.send_result = << FALSE >> /\ last.data.posted = 0)
    /\ [][last'.data.sent > last.data.sent =>
            /\ last'.data.sent = last.data.sent + 1
            /\ last.op = "send_invoice_email" => last.data.authenticated = << TRUE >>
            /\ last.data.access_token = None =>
                   last'.data.posted = last.data.posted /\ ~last'.ok]_vars

\* C23 (cases reached): the code arrived at port 8080, the token was
\* obtained, the message was posted and accepted, and True was returned
C23_SentAfterInteractiveAuthentication ==
    /\ last.op = "send_invoice_email"
    /\ At("done")
    /\ last.data.auth_code # None
    /\ last.data.authenticated = << TRUE >>
    /\ last.data.posted = 1
    /\ last.ok

\* the program is waiting in _wait_for_auth_code
InWait == last.data.pc \in { "test", "handle", "sleep" }

\* C27: the wait for the redirect always returns: when no request with a
\* code arrives, or no request at all, _wait_for_auth_code returns None once
\* the timeout has elapsed and authenticate() returns False.
C27_WaitAlwaysReturns ==
    /\ InWait ~> ~InWait
    /\ [][InWait /\ ~InWait' /\ last.data.auth_code = None =>
            /\ ~BeforeTimeout(last, now)
            /\ last'.data.authenticated = << FALSE >>
            /\ At("done")' /\ ~last'.ok]_vars

\* the stored record of the client the invoice of main() carries
ClientOfInvoice(d) == get_client(d, last.data.invoice_data[1].client_info.client_id)

\* C25: in main(), once an invoice with a client_id has been rendered to a
\* file, the repository has recorded it against that client by the time the
\* user is asked about e-mail delivery: total_invoices is one more than it
\* was, and last_invoice_date is set.
C25_RecordedBeforeEmailOffer ==
    last.op = "main" /\ (At("offer") \/ last.data.offered)
        /\ last.data.pdf_path # None
        /\ last.data.invoice_data[1].client_info.client_id # None
    => /\ ClientOfInvoice(disk) # None
       /\ ClientOfInvoice(disk)[1].total_invoices
              = ClientOfInvoice(TwoClients)[1].total_invoices + 1
       /\ ClientOfInvoice(disk)[1].last_invoice_date # None

====
